---- MODULE Spec2Model ----
(***************************************************************************)
(* A model of the retrieval and indexing engine of SU_BOT:                 *)
(*   build_index.py      chunk_text, build_chunks, build_faiss             *)
(*   retriever/engine.py RetrieverQA, initialize_retriever                 *)
(*   retriever/router.py pick_route                                        *)
(*   scraper/crawl.py    process_url, crawl                                *)
(* Texts are sequences of one-character strings.  Python offsets are       *)
(* 0-based and half-open; Slice translates them to SubSeq.                 *)
(***************************************************************************)
EXTENDS Integers, Sequences, FiniteSets, TLC

VARIABLES
    call,         \* the last operation called, with its arguments
    ret,          \* what that operation returned
    chunks_file,  \* data/processed/chunks.jsonl: a sequence of chunk records
    faiss_file,   \* data/index/faiss.index on disk
    meta_file,    \* data/index/meta.jsonl on disk
    builder,      \* build_faiss: its position and its local variables
    reader,       \* RetrieverQA.__init__: its position and what it has loaded
    retriever,    \* the object initialize_retriever returned
    crawler       \* crawl: its position, its local variables and its worker threads

vars == <<call, ret, chunks_file, faiss_file, meta_file, builder, reader, retriever,
          crawler>>

(***************************************************************************)
(* Bounds of the model.                                                    *)
(***************************************************************************)
MaxTextLen == 5
MaxSize == 4
MaxDocs == 2
MaxK == 2
MaxBatch == 2
MaxAnswers == 5

(***************************************************************************)
(* Constants of the program.                                               *)
(***************************************************************************)
MAX_PAGES == 7000
CHUNK_SIZE == 800
CHUNK_OVERLAP == 150
BatchSize == 256

\* crawl: max_workers of the thread pool and the largest batch of queued URLs
MaxWorkers == 8

NoiseFloor == 10
SnippetLimit == 200

\* RetrieverQA.answer: the window of extract_best_passage, the threshold a span
\* score has to exceed (0.01, in thousandths), and the lengths texts are cut to
PassageWindow == 400
MinSpanScore == 10
ContextSnippetLimit == 200
AnswerLimit == 150

\* the score faiss gives a missing neighbour: -FLT_MAX, below every inner product
NoNeighbourScore == -1000000


(***************************************************************************)
(* Python str primitives.                                                  *)
(***************************************************************************)
None == <<"<None>">>   \* distinct from every text, and comparable with one

\* no crawl is running
NoCrawl == [pc |-> "none"]

Whitespace == {" ", "\t", "\n"}

Min(a, b) == IF a <= b THEN a ELSE b

Max(a, b) == IF a >= b THEN a ELSE b

\* text[lo:hi] for 0 <= lo, with hi capped at len(text) as Python caps it
Slice(text, lo, hi) == SubSeq(text, lo + 1, Min(hi, Len(text)))

RECURSIVE LStrip(_)
LStrip(text) ==
    IF text # <<>> /\ Head(text) \in Whitespace THEN LStrip(Tail(text)) ELSE text

RECURSIVE RStrip(_)
RStrip(text) ==
    IF text # <<>> /\ text[Len(text)] \in Whitespace
    THEN RStrip(SubSeq(text, 1, Len(text) - 1))
    ELSE text

\* str.strip()
Strip(text) == RStrip(LStrip(text))

(***************************************************************************)
(* build_index.py: chunk_text.  ChunkSpans is the while loop: the          *)
(* (start, end) offsets of the chunks it appends, in order.                *)
(***************************************************************************)
\* a chunker that forgets the overlap when it advances
RECURSIVE ChunkLoopNoOverlap(_, _, _, _)
ChunkLoopNoOverlap(start, n, size, overlap) ==
    IF start < n
    THEN <<[start |-> start, end |-> Min(start + size, n)]>>
            \o ChunkLoopNoOverlap(start + size, n, size, overlap)
    ELSE <<>>

\* a chunker that stops as soon as a chunk reaches the end of the text
RECURSIVE ChunkLoopStopAtEnd(_, _, _, _)
ChunkLoopStopAtEnd(start, n, size, overlap) ==
    IF start < n
    THEN <<[start |-> start, end |-> Min(start + size, n)]>>
            \o (IF start + size >= n
                THEN <<>>
                ELSE ChunkLoopStopAtEnd(start + size - overlap, n, size, overlap))
    ELSE <<>>

\* a chunker whose loop runs while start <= n
RECURSIVE ChunkLoopInclusive(_, _, _, _)
ChunkLoopInclusive(start, n, size, overlap) ==
    IF start <= n
    THEN <<[start |-> start, end |-> Min(start + size, n)]>>
            \o ChunkLoopInclusive(start + size - overlap, n, size, overlap)
    ELSE <<>>

RECURSIVE ChunkLoop(_, _, _, _)
ChunkLoop(start, n, size, overlap) ==
    IF start < n
    THEN <<[start |-> start, end |-> Min(start + size, n)]>>
            \o ChunkLoop(start + size - overlap, n, size, overlap)
    ELSE <<>>

ChunkSpans(text, size, overlap) == ChunkLoop(0, Len(Strip(text)), size, overlap)

chunk_text(text, size, overlap) ==
    LET stripped == Strip(text)
        spans == ChunkSpans(text, size, overlap)
    IN  IF stripped = <<>>
        THEN <<>>
        ELSE [k \in 1..Len(spans) |-> Slice(stripped, spans[k].start, spans[k].end)]

(***************************************************************************)
(* str.lower() and str.split()                                             *)
(***************************************************************************)
UpperCase == <<"A", "B", "C", "D", "E", "F", "G", "H", "I", "J", "K", "L", "M",
               "N", "O", "P", "Q", "R", "S", "T", "U", "V", "W", "X", "Y", "Z">>

LowerCase == <<"a", "b", "c", "d", "e", "f", "g", "h", "i", "j", "k", "l", "m",
               "n", "o", "p", "q", "r", "s", "t", "u", "v", "w", "x", "y", "z">>

\* the lower-case letter of every upper-case letter
LowerOf ==
    [c \in {UpperCase[i] : i \in 1..Len(UpperCase)} |->
        LowerCase[CHOOSE i \in 1..Len(UpperCase) : UpperCase[i] = c]]

LowerChar(c) == IF c \in DOMAIN LowerOf THEN LowerOf[c] ELSE c

Lower(text) == [i \in 1..Len(text) |-> LowerChar(text[i])]

\* str.split(): the maximal runs of non-whitespace characters, in order
Split(text) ==
    LET n == Len(text)
        starts == {i \in 1..n : text[i] \notin Whitespace
                                  /\ (i = 1 \/ text[i - 1] \in Whitespace)}
        ends == {j \in 1..n : text[j] \notin Whitespace
                                /\ (j = n \/ text[j + 1] \in Whitespace)}
        nth(set, k) == CHOOSE i \in set : Cardinality({m \in set : m < i}) = k - 1
    IN  [k \in 1..Cardinality(starts) |-> SubSeq(text, nth(starts, k), nth(ends, k))]

\* set(text.lower().split())
WordSet(text) == LET ws == Split(Lower(text)) IN {ws[i] : i \in 1..Len(ws)}

\* needle in text, for Python strings
Contains(text, needle) ==
    \E i \in 0..(Len(text) - Len(needle)) : SubSeq(text, i + 1, i + Len(needle)) = needle

(***************************************************************************)
(* retriever/router.py                                                     *)
(***************************************************************************)
SCET_HINTS ==
    { <<"s", "c", "e", "t">>,
      <<"s", "a", "r", "v", "a", "j", "a", "n", "i", "k">>,
      <<"s", "u", "r", "a", "t">>,
      <<"v", "i", "v", "a", "k", "s", "h", "a">>,
      <<"j", "a", "r", "i", "w", "a", "l", "a">>,
      <<"i", "t", " ", "d", "e", "p", "a", "r", "t", "m", "e", "n", "t">>,
      <<"c", "o", "m", "p", "u", "t", "e", "r", " ", "e", "n", "g", "i", "n", "e", "e", "r", "i", "n", "g">>,
      <<"p", "l", "a", "c", "e", "m", "e", "n", "t", "s">>,
      <<"h", "o", "d">>,
      <<"f", "a", "c", "u", "l", "t", "y">> }

Route(use_local, use_web, reason) ==
    [use_local |-> use_local, use_web |-> use_web, reason |-> reason]

\* a router that goes hybrid on every domain query, with or without a local index
pick_route_always_hybrid(query, has_local) ==
    LET q == Lower(IF query = None \/ query = <<>> THEN <<>> ELSE query)
    IN  IF \E k \in SCET_HINTS : Contains(q, k)
        THEN Route(TRUE, TRUE, "SCET query -> hybrid")
        ELSE Route(has_local, TRUE, "Default hybrid")

\* a router that answers a domain query from the local index alone when there is one
pick_route_local_first(query, has_local) ==
    LET q == Lower(IF query = None \/ query = <<>> THEN <<>> ELSE query)
    IN  IF \E k \in SCET_HINTS : Contains(q, k)
        THEN IF has_local
             THEN Route(TRUE, FALSE, "SCET query -> hybrid")
             ELSE Route(FALSE, TRUE, "SCET query -> web only")
        ELSE Route(has_local, TRUE, "Default hybrid")

pick_route(query, has_local) ==
    LET q == Lower(IF query = None \/ query = <<>> THEN <<>> ELSE query)
    IN  IF \E k \in SCET_HINTS : Contains(q, k)
        THEN IF has_local
             THEN Route(TRUE, TRUE, "SCET query -> hybrid")
             ELSE Route(FALSE, TRUE, "SCET query -> web only")
        ELSE Route(has_local, TRUE, "Default hybrid")

(***************************************************************************)
(* retriever/engine.py: RetrieverQA.extract_best_passage                   *)
(***************************************************************************)
\* range(0, n, step) for step > 0
RECURSIVE Range(_, _, _)
Range(lo, n, step) == IF lo < n THEN <<lo>> \o Range(lo + step, n, step) ELSE <<>>

\* passages: text[i : i + window_size] for i in range(0, len(text), window_size // 2)
\* windows one character too long
PassagesOffByOne(text, window_size) ==
    LET starts == Range(0, Len(text), window_size \div 2)
    IN  [j \in 1..Len(starts) |-> Slice(text, starts[j], starts[j] + window_size + 1)]

Passages(text, window_size) ==
    LET starts == Range(0, Len(text), window_size \div 2)
    IN  [j \in 1..Len(starts) |-> Slice(text, starts[j], starts[j] + window_size)]

\* a selection loop that also replaces best on an equal overlap
RECURSIVE BestLoopLatest(_, _, _, _)
BestLoopLatest(question, passages, j, best) ==
    IF j > Len(passages)
    THEN best
    ELSE LET overlap == Cardinality(WordSet(question) \cap WordSet(passages[j]))
         IN  BestLoopLatest(question, passages, j + 1,
                            IF overlap >= best.score
                            THEN [score |-> overlap, passage |-> passages[j]]
                            ELSE best)

\* the selection loop: best is [score, passage], replaced on a strictly larger overlap
RECURSIVE BestLoop(_, _, _, _)
BestLoop(question, passages, j, best) ==
    IF j > Len(passages)
    THEN best
    ELSE LET overlap == Cardinality(WordSet(question) \cap WordSet(passages[j]))
         IN  BestLoop(question, passages, j + 1,
                      IF overlap > best.score
                      THEN [score |-> overlap, passage |-> passages[j]]
                      ELSE best)

Returned(v) == [status |-> "returned", value |-> v]

Raised(e) == [status |-> "raised", value |-> e]

Pending == [status |-> "pending", value |-> <<>>]

\* windowing also a text of exactly window_size characters
extract_best_passage_strict(question, text, window_size) ==
    IF Len(text) < window_size
    THEN Returned(text)
    ELSE IF window_size \div 2 = 0
    THEN Raised("ValueError")
    ELSE LET best == BestLoop(question, Passages(text, window_size), 1,
                              [score |-> -1, passage |-> <<>>])
         IN  Returned(IF best.passage # <<>>
                      THEN best.passage
                      ELSE Slice(text, 0, window_size))

extract_best_passage(question, text, window_size) ==
    IF Len(text) <= window_size
    THEN Returned(text)
    ELSE IF window_size \div 2 = 0
    THEN Raised("ValueError")   \* range() arg 3 must not be zero
    ELSE LET best == BestLoop(question, Passages(text, window_size), 1,
                              [score |-> -1, passage |-> <<>>])
         IN  Returned(IF best.passage # <<>>
                      THEN best.passage
                      ELSE Slice(text, 0, window_size))

(***************************************************************************)
(* The embedding model and the vector index.  The encoder is a black box   *)
(* that maps a text to a unit vector; the model fixes one deterministic    *)
(* encoder into the unit circle, a vector being its angle in degrees.  The *)
(* inner product of two unit vectors is the cosine of the angle between    *)
(* them, kept in hundredths (Bhaskara's rational approximation).           *)
(***************************************************************************)
CharCode(c) ==
    IF \E i \in 1..Len(LowerCase) : LowerCase[i] = c
    THEN CHOOSE i \in 1..Len(LowerCase) : LowerCase[i] = c
    ELSE IF c \in Whitespace THEN 0 ELSE 1 + Len(LowerCase)

\* the sum of (2 * i + 1) * CharCode(text[i]) over the positions lo..hi
RECURSIVE CharSumRange(_, _, _)
CharSumRange(text, lo, hi) ==
    IF lo > hi THEN 0
    ELSE IF lo = hi THEN (2 * lo + 1) * CharCode(text[lo])
    ELSE LET mid == (lo + hi) \div 2
         IN  CharSumRange(text, lo, mid) + CharSumRange(text, mid + 1, hi)

CharSum(text, i) == CharSumRange(text, i, Len(text))

\* SentenceTransformer.encode(..., normalize_embeddings=True) of one text
Encode(text) == (7 * CharSum(text, 1)) % 360

\* model.encode(batch_texts)
EncodeBatch(texts) == [j \in 1..Len(texts) |-> Encode(texts[j])]

Cos100(d) ==
    LET x == IF d > 180 THEN 360 - d ELSE d
        y == IF x > 90 THEN 180 - x ELSE x
        c == (100 * (32400 - 4 * y * y)) \div (32400 + y * y)
    IN  IF x > 90 THEN -c ELSE c

\* the inner product of two normalized vectors, in hundredths
InnerProduct(u, v) == Cos100(IF u >= v THEN u - v ELSE v - u)

(***************************************************************************)
(* build_index.py: build_chunks and build_faiss.                           *)
(***************************************************************************)
\* the concatenation of seqs[lo], ..., seqs[hi]
RECURSIVE FlattenRange(_, _, _)
FlattenRange(seqs, lo, hi) ==
    IF lo > hi THEN <<>>
    ELSE IF lo = hi THEN seqs[lo]
    ELSE LET mid == (lo + hi) \div 2
         IN  FlattenRange(seqs, lo, mid) \o FlattenRange(seqs, mid + 1, hi)

Flatten(seqs) == FlattenRange(seqs, 1, Len(seqs))

\* a build_chunks that numbers the chunks of a document from 1
DocChunksOneBased(rec) ==
    IF rec.text = <<>>
    THEN <<>>
    ELSE LET chunks == chunk_text(rec.text, CHUNK_SIZE, CHUNK_OVERLAP)
         IN  [i \in 1..Len(chunks) |->
                [doc_id |-> rec.id, url |-> rec.url, title |-> rec.title,
                 type |-> rec.type, chunk_id |-> i, text |-> chunks[i]]]

\* the records build_chunks writes for one document of docs.jsonl
DocChunks(rec) ==
    IF rec.text = <<>>
    THEN <<>>
    ELSE LET chunks == chunk_text(rec.text, CHUNK_SIZE, CHUNK_OVERLAP)
         IN  [i \in 1..Len(chunks) |->
                [doc_id |-> rec.id, url |-> rec.url, title |-> rec.title,
                 type |-> rec.type, chunk_id |-> i - 1, text |-> chunks[i]]]

\* the chunk file build_chunks writes for a corpus
build_chunks(docs) == Flatten([d \in 1..Len(docs) |-> DocChunks(docs[d])])

NoFile == [exists |-> FALSE, complete |-> FALSE, content |-> <<>>]

Idle == [pc |-> "idle"]

NoRetriever == [kind |-> "none"]

BuilderAt(pc, line, batch_texts, batch_metas, vectors, metas, X, written) ==
    [pc |-> pc, line |-> line, batch_texts |-> batch_texts, batch_metas |-> batch_metas,
     vectors |-> vectors, metas |-> metas, X |-> X, written |-> written]

\* build_faiss is entered: metas, vectors and the batch are empty
BuildStart ==
    /\ builder.pc = "idle"
    /\ builder' = BuilderAt("reading", 0, <<>>, <<>>, <<>>, <<>>, <<>>, 0)
    /\ UNCHANGED <<call, ret, chunks_file, faiss_file, meta_file, reader, retriever, crawler>>

\* one iteration of the loop over the chunk file, with the flush of a full batch
BuildReadLine ==
    /\ builder.pc = "reading"
    /\ builder.line < Len(chunks_file)
    /\ LET rec == chunks_file[builder.line + 1]
           batch_texts == Append(builder.batch_texts, rec.text)
           batch_metas == Append(builder.batch_metas, rec)
       IN  builder' =
             IF Len(batch_texts) >= BatchSize
             THEN BuilderAt("reading", builder.line + 1, <<>>, <<>>,
                            Append(builder.vectors, EncodeBatch(batch_texts)),
                            builder.metas \o batch_metas, <<>>, 0)
             ELSE BuilderAt("reading", builder.line + 1, batch_texts, batch_metas,
                            builder.vectors, builder.metas, <<>>, 0)
    /\ UNCHANGED <<call, ret, chunks_file, faiss_file, meta_file, reader, retriever, crawler>>

\* a flush of the remaining texts that leaves their records out of metas
BuildFlushWithoutMetas ==
    /\ builder.pc = "reading"
    /\ builder.line = Len(chunks_file)
    /\ builder' =
         IF builder.batch_texts # <<>>
         THEN BuilderAt("stack", builder.line, builder.batch_texts, builder.batch_metas,
                        Append(builder.vectors, EncodeBatch(builder.batch_texts)),
                        builder.metas, <<>>, 0)
         ELSE [builder EXCEPT !.pc = "stack"]
    /\ UNCHANGED <<call, ret, chunks_file, faiss_file, meta_file, reader, retriever, crawler>>

\* the end of the chunk file: the remaining texts are encoded
BuildFlush ==
    /\ builder.pc = "reading"
    /\ builder.line = Len(chunks_file)
    /\ builder' =
         IF builder.batch_texts # <<>>
         THEN BuilderAt("stack", builder.line, builder.batch_texts, builder.batch_metas,
                        Append(builder.vectors, EncodeBatch(builder.batch_texts)),
                        builder.metas \o builder.batch_metas, <<>>, 0)
         ELSE [builder EXCEPT !.pc = "stack"]
    /\ UNCHANGED <<call, ret, chunks_file, faiss_file, meta_file, reader, retriever, crawler>>

\* a build that finds out that it has nothing to index only after it has opened
\* both files for writing
BuildNoChunksLate ==
    /\ builder.pc = "stack"
    /\ builder.vectors = <<>>
    /\ faiss_file' = [exists |-> TRUE, complete |-> FALSE, content |-> <<>>]
    /\ meta_file' = [exists |-> TRUE, complete |-> FALSE, content |-> <<>>]
    /\ builder' = [builder EXCEPT !.pc = "SystemExit"]
    /\ UNCHANGED <<call, ret, chunks_file, reader, retriever, crawler>>

\* if not vectors: raise SystemExit
BuildNoChunks ==
    /\ builder.pc = "stack"
    /\ builder.vectors = <<>>
    /\ builder' = [builder EXCEPT !.pc = "SystemExit"]
    /\ UNCHANGED <<call, ret, chunks_file, faiss_file, meta_file, reader, retriever, crawler>>

\* X = np.vstack(vectors); index.add(X)
BuildStack ==
    /\ builder.pc = "stack"
    /\ builder.vectors # <<>>
    /\ builder' = [builder EXCEPT !.pc = "write_index", !.X = Flatten(builder.vectors)]
    /\ UNCHANGED <<call, ret, chunks_file, faiss_file, meta_file, reader, retriever, crawler>>

\* faiss.write_index opens FAISS_PATH for writing, which truncates it
WriteIndexOpen ==
    /\ builder.pc = "write_index"
    /\ faiss_file' = [exists |-> TRUE, complete |-> FALSE, content |-> <<>>]
    /\ builder' = [builder EXCEPT !.pc = "writing_index"]
    /\ UNCHANGED <<call, ret, chunks_file, meta_file, reader, retriever, crawler>>

\* faiss.write_index has written the index and closed the file
WriteIndexClose ==
    /\ builder.pc = "writing_index"
    /\ faiss_file' = [exists |-> TRUE, complete |-> TRUE, content |-> builder.X]
    /\ builder' = [builder EXCEPT !.pc = "open_meta"]
    /\ UNCHANGED <<call, ret, chunks_file, meta_file, reader, retriever, crawler>>

\* a metadata file opened for appending: the records of the earlier build stay
WriteMetaOpenAppend ==
    /\ builder.pc = "open_meta"
    /\ meta_file' = [meta_file EXCEPT !.exists = TRUE, !.complete = FALSE]
    /\ builder' = [builder EXCEPT !.pc = "writing_meta", !.written = 0]
    /\ UNCHANGED <<call, ret, chunks_file, faiss_file, reader, retriever, crawler>>

\* open(META_PATH, "w") truncates the metadata file
WriteMetaOpen ==
    /\ builder.pc = "open_meta"
    /\ meta_file' = [exists |-> TRUE, complete |-> FALSE, content |-> <<>>]
    /\ builder' = [builder EXCEPT !.pc = "writing_meta", !.written = 0]
    /\ UNCHANGED <<call, ret, chunks_file, faiss_file, reader, retriever, crawler>>

\* m.write(...) of one record
WriteMetaRecord ==
    /\ builder.pc = "writing_meta"
    /\ builder.written < Len(builder.metas)
    /\ meta_file' = [meta_file EXCEPT
                        !.content = Append(@, builder.metas[builder.written + 1])]
    /\ builder' = [builder EXCEPT !.written = @ + 1]
    /\ UNCHANGED <<call, ret, chunks_file, faiss_file, reader, retriever, crawler>>

\* the with block ends: the metadata file is closed, build_faiss returns
WriteMetaClose ==
    /\ builder.pc = "writing_meta"
    /\ builder.written = Len(builder.metas)
    /\ meta_file' = [meta_file EXCEPT !.complete = TRUE]
    /\ builder' = [builder EXCEPT !.pc = "done"]
    /\ UNCHANGED <<call, ret, chunks_file, faiss_file, reader, retriever, crawler>>

BuildFaiss ==
    \/ BuildStart
    \/ BuildReadLine
    \/ BuildFlush
    \/ BuildNoChunks
    \/ BuildStack
    \/ WriteIndexOpen
    \/ WriteIndexClose
    \/ WriteMetaOpen
    \/ WriteMetaRecord
    \/ WriteMetaClose

(***************************************************************************)
(* retriever/engine.py: initialize_retriever and RetrieverQA.__init__.     *)
(***************************************************************************)
Fallback == [kind |-> "FallbackRetriever"]

RetrieverQA(index, metas, snippets_only, qa) ==
    [kind |-> "RetrieverQA", index |-> index, metas |-> metas,
     snippets_only |-> snippets_only, qa |-> qa]

\* qa_error: whether loading the span model raised
ReaderAt(pc, snippets_only, index) ==
    [pc |-> pc, snippets_only |-> snippets_only, index |-> index, qa_error |-> FALSE]

\* an initialize_retriever without its try/except: the FileNotFoundError propagates
InitializeRetrieverNoCatch ==
    /\ reader.pc = "idle"
    /\ \E snippets_only \in BOOLEAN :
          IF faiss_file.exists /\ meta_file.exists
          THEN reader' = ReaderAt("read_index", snippets_only, <<>>)
          ELSE reader' = ReaderAt("raised", snippets_only, <<>>)
    /\ UNCHANGED <<call, ret, chunks_file, faiss_file, meta_file, builder, retriever, crawler>>

\* initialize_retriever tests that both files exist; a missing file raises
\* FileNotFoundError, which the except clause turns into the fallback retriever
InitializeRetriever ==
    /\ reader.pc = "idle"
    /\ \E snippets_only \in BOOLEAN :
          IF faiss_file.exists /\ meta_file.exists
          THEN /\ reader' = ReaderAt("read_index", snippets_only, <<>>)
               /\ UNCHANGED <<retriever, crawler>>
          ELSE /\ reader' = ReaderAt("done", snippets_only, <<>>)
               /\ retriever' = Fallback
    /\ UNCHANGED <<call, ret, chunks_file, faiss_file, meta_file, builder, crawler>>

\* faiss.read_index(FAISS_PATH): a file that is still being written does not parse,
\* read_index raises and initialize_retriever returns the fallback retriever
ReadIndex ==
    /\ reader.pc = "read_index"
    /\ IF faiss_file.complete
       THEN /\ reader' = ReaderAt("read_meta", reader.snippets_only, faiss_file.content)
            /\ UNCHANGED <<retriever, crawler>>
       ELSE /\ reader' = ReaderAt("done", reader.snippets_only, <<>>)
            /\ retriever' = Fallback
    /\ UNCHANGED <<call, ret, chunks_file, faiss_file, meta_file, builder, crawler>>

\* self.qa = None
NoSpanModel == [raises |-> {}, scoring |-> "None"]

\* the span models the pipeline may load
SpanModels ==
    { [raises |-> {}, scoring |-> "long"],
      [raises |-> {}, scoring |-> "low"],
      [raises |-> {<<"b", "a">>}, scoring |-> "long"],
      [raises |-> {<<"a", " ", "b">>}, scoring |-> "short"],
      [raises |-> {}, scoring |-> "flat"] }

\* a constructor that leaves snippets_only as it was passed when the span model
\* fails to load
ReadMetaKeepsMode ==
    /\ reader.pc = "read_meta"
    /\ \E qa_loads \in BOOLEAN, qa \in SpanModels :
          /\ retriever' =
                IF ~meta_file.exists
                THEN Fallback
                ELSE IF reader.snippets_only
                THEN RetrieverQA(reader.index, meta_file.content, TRUE, NoSpanModel)
                ELSE IF qa_loads
                THEN RetrieverQA(reader.index, meta_file.content, FALSE, qa)
                ELSE RetrieverQA(reader.index, meta_file.content, FALSE, NoSpanModel)
          /\ reader' = [reader EXCEPT
                          !.pc = "done",
                          !.qa_error = meta_file.exists /\ ~reader.snippets_only
                                          /\ ~qa_loads]
    /\ UNCHANGED <<call, ret, chunks_file, faiss_file, meta_file, builder, crawler>>

\* the metadata file is read as it is on disk (open() of a missing file raises, and
\* initialize_retriever returns the fallback retriever), then the span model is
\* loaded unless snippets_only was asked for; a failure to load it sets snippets_only
ReadMeta ==
    /\ reader.pc = "read_meta"
    /\ \E qa_loads \in BOOLEAN, qa \in SpanModels :
          /\ retriever' =
                IF ~meta_file.exists
                THEN Fallback
                ELSE IF reader.snippets_only
                THEN RetrieverQA(reader.index, meta_file.content, TRUE, NoSpanModel)
                ELSE IF qa_loads
                THEN RetrieverQA(reader.index, meta_file.content, FALSE, qa)
                ELSE RetrieverQA(reader.index, meta_file.content, TRUE, NoSpanModel)
          /\ reader' = [reader EXCEPT
                          !.pc = "done",
                          !.qa_error = meta_file.exists /\ ~reader.snippets_only
                                          /\ ~qa_loads]
    /\ UNCHANGED <<call, ret, chunks_file, faiss_file, meta_file, builder, crawler>>

LoadRetriever == InitializeRetriever \/ ReadIndex \/ ReadMeta

(***************************************************************************)
(* retriever/engine.py: RetrieverQA.preprocess_query, retrieve and         *)
(* batch_retrieve.  Positions in the index and in metas are 0-based, as in *)
(* the code; scores are in hundredths; a relevance score is the exact      *)
(* rational num / den.                                                     *)
(***************************************************************************)
question_words ==
    { <<"w", "h", "a", "t">>,
      <<"w", "h", "o">>,
      <<"w", "h", "e", "r", "e">>,
      <<"w", "h", "e", "n">>,
      <<"w", "h", "y">>,
      <<"h", "o", "w">>,
      <<"i", "s">>,
      <<"a", "r", "e">>,
      <<"d", "o">>,
      <<"d", "o", "e", "s">>,
      <<"d", "i", "d">>,
      <<"c", "a", "n">>,
      <<"c", "o", "u", "l", "d">> }

RECURSIVE Join(_)
Join(words) ==
    IF words = <<>> THEN <<>>
    ELSE IF Len(words) = 1 THEN words[1]
    ELSE words[1] \o <<" ">> \o Join(Tail(words))

\* [word for word in words if word not in question_words]
RECURSIVE FilterWords(_)
FilterWords(words) ==
    IF words = <<>> THEN <<>>
    ELSE (IF Head(words) \in question_words THEN <<>> ELSE <<Head(words)>>)
            \o FilterWords(Tail(words))

\* a preprocess_query that returns the joined remaining words even when none is left
preprocess_query_without_fallback(query) ==
    Join(FilterWords(Split(Strip(Lower(query)))))

preprocess_query(query) ==
    LET q == Strip(Lower(query))
        filtered_words == FilterWords(Split(q))
    IN  IF filtered_words # <<>> THEN Join(filtered_words) ELSE q

\* whether neighbour a comes before neighbour b in a search result: the larger inner
\* product first, the lower position first among equal ones
Before(a, b) == a.score > b.score \/ (a.score = b.score /\ a.idx < b.idx)

\* index.search(qv, n) of an inner-product index: the n nearest neighbours, best
\* first, padded with position -1 and the lowest score when the index holds fewer
IndexSearch(index, qv, n) ==
    LET all == {[idx |-> i - 1, score |-> InnerProduct(qv, index[i])] : i \in 1..Len(index)}
        rank(a) == 1 + Cardinality({b \in all : Before(b, a)})
    IN  [j \in 1..n |->
            IF j <= Len(index)
            THEN CHOOSE a \in all : rank(a) = j
            ELSE [idx |-> -1, score |-> NoNeighbourScore]]

\* metas[idx] for a Python list: a negative idx counts from the end
ListItem(list, idx) == IF idx < 0 THEN list[Len(list) + idx + 1] ELSE list[idx + 1]

\* rec.get("title") or rec.get("url", "")
TitleOrUrl(rec) == IF rec.title # "" THEN rec.title ELSE rec.url

calculate_relevance_score(query, text, semantic_score) ==
    LET query_words == WordSet(query)
        text_words == WordSet(text)
        b == IF query_words = {} THEN 1 ELSE Cardinality(query_words)
        a == Cardinality(query_words \cap text_words)
    IN  [num |-> 70 * semantic_score * b + 3000 * a + Min(1000, Len(text)) * b,
         den |-> 10000 * b]

\* x["relevance_score"] > y["relevance_score"]
RelevanceGreater(x, y) ==
    x.relevance_score.num * y.relevance_score.den
        > y.relevance_score.num * x.relevance_score.den

\* hits.sort(key=relevance_score, reverse=True): stable, equal keys keep their order
RECURSIVE InsertHit(_, _)
InsertHit(sorted, h) ==
    IF sorted = <<>> THEN <<h>>
    ELSE IF RelevanceGreater(h, sorted[Len(sorted)])
    THEN Append(InsertHit(SubSeq(sorted, 1, Len(sorted) - 1), h), sorted[Len(sorted)])
    ELSE Append(sorted, h)

\* hits left in the order of the search, best raw score first
SortHitsBySearchOrder(hits) == hits

RECURSIVE SortHits(_)
SortHits(hits) ==
    IF hits = <<>> THEN <<>>
    ELSE InsertHit(SortHits(SubSeq(hits, 1, Len(hits) - 1)), hits[Len(hits)])

\* a noise floor of 0.0 instead of 0.1
BelowZero(score) == score < 0

\* if score < 0.1: continue
BelowNoiseFloor(score) == score < NoiseFloor

\* the loop of retrieve over the neighbours, from neighbour j on
RECURSIVE RetrieveLoop(_, _, _, _)
RetrieveLoop(self, query, found, j) ==
    IF j > Len(found) THEN <<>>
    ELSE LET idx == found[j].idx
             score == found[j].score
             rest == RetrieveLoop(self, query, found, j + 1)
         IN  IF idx >= Len(self.metas) \/ BelowNoiseFloor(score)
             THEN rest
             ELSE LET rec == ListItem(self.metas, idx)
                  IN  <<[score |-> score,
                         relevance_score |->
                             calculate_relevance_score(query, rec.text, score),
                         title |-> TitleOrUrl(rec),
                         url |-> rec.url,
                         text |-> rec.text,
                         type |-> rec.type,
                         length |-> Len(rec.text)]>> \o rest

\* a retrieve that searches for k neighbours only, without the over-fetch
retrieve_without_overfetch(self, query, k) ==
    LET n == Min(k, Len(self.metas))
    IN  IF n = 0
        THEN Raised("AssertionError")
        ELSE LET found == IndexSearch(self.index, Encode(preprocess_query(query)), n)
                 hits == SortHits(RetrieveLoop(self, query, found, 1))
             IN  Returned(SubSeq(hits, 1, Min(k, Len(hits))))

\* RetrieverQA.retrieve; a search for 0 neighbours fails faiss's assertion k > 0
retrieve(self, query, k) ==
    LET n == Min(k * 3, Len(self.metas))
    IN  IF n = 0
        THEN Raised("AssertionError")
        ELSE LET found == IndexSearch(self.index, Encode(preprocess_query(query)), n)
                 hits == SortHits(RetrieveLoop(self, query, found, 1))
             IN  Returned(SubSeq(hits, 1, Min(k, Len(hits))))

\* RetrieverQA.get_similar_documents
get_similar_documents(self, query, k) == retrieve(self, query, k)

\* rec["text"][:200] + "..." if it is longer than 200, rec["text"] otherwise
Truncate(text, limit) ==
    IF Len(text) > limit THEN Slice(text, 0, limit) \o <<".", ".", ".">> ELSE text

\* the hits batch_retrieve builds for one query
RECURSIVE BatchLoop(_, _, _)
BatchLoop(self, found, j) ==
    IF j > Len(found) THEN <<>>
    ELSE LET idx == found[j].idx
             rest == BatchLoop(self, found, j + 1)
         IN  IF idx < Len(self.metas)
             THEN LET rec == ListItem(self.metas, idx)
                  IN  <<[score |-> found[j].score,
                         title |-> TitleOrUrl(rec),
                         url |-> rec.url,
                         text |-> Truncate(rec.text, SnippetLimit)]>> \o rest
             ELSE rest

\* RetrieverQA.batch_retrieve; metas[-1] of an empty list raises IndexError
batch_retrieve(self, queries, k) ==
    IF self.metas = <<>> /\ (self.index = <<>> \/ k > Len(self.index))
    THEN Raised("IndexError")
    ELSE Returned([i \in 1..Len(queries) |->
            BatchLoop(self, IndexSearch(self.index, Encode(preprocess_query(queries[i])), k), 1)])

\* FallbackRetriever.retrieve
fallback_retrieve(query, k) == <<>>

\* FallbackRetriever.answer
fallback_answer(question, k) ==
    [answer |-> "System initialization failed.", snippets |-> <<>>]

(***************************************************************************)
(* retriever/engine.py: RetrieverQA.calculate_confidence.  Scores and      *)
(* confidences are in thousandths.                                         *)
(***************************************************************************)
\* a confidence that adds the agreement boost without the final clamp
calculate_confidence_unclamped(qa_score, num_answers) ==
    qa_score + Min(200, num_answers * 50)

\* min(1.0, qa_score + min(0.2, num_answers * 0.05))
calculate_confidence(qa_score, num_answers) ==
    Min(1000, qa_score + Min(200, num_answers * 50))

(***************************************************************************)
(* retriever/engine.py: RetrieverQA.answer.  The span model self.qa is a   *)
(* deterministic function of the context it is given: it raises on the     *)
(* contexts in qa.raises, and scores the others by qa.scoring.  The score  *)
(* and the confidence of a result are exact rationals num / den.           *)
(***************************************************************************)
Rational(num, den) == [num |-> num, den |-> den]

NoAnswerMessage ==
    <<"I couldn't find a specific answer to your question in the available documents.">>

\* result["score"] of the span model for a context, in thousandths
SpanScore(qa, context) ==
    IF qa.scoring = "long" THEN 50 + 100 * Min(Len(context), 9)
    ELSE IF qa.scoring = "short" THEN 1000 - 100 * Min(Len(context), 9)
    ELSE IF qa.scoring = "flat" THEN 500
    ELSE IF Len(context) % 2 = 0 THEN MinSpanScore ELSE MinSpanScore \div 2

\* self.qa({...}): None is not callable
CallSpanModel(qa, question, context) ==
    IF qa = NoSpanModel THEN Raised("TypeError")
    ELSE IF context \in qa.raises THEN Raised("RuntimeError")
    ELSE Returned([answer |-> Split(context)[1], score |-> SpanScore(qa, context)])

\* what one iteration of the loop of answer does with hit h: whether the span model
\* was called, and the answer_data it appended to all_answers, if any
AnswerStep(self, question, h) ==
    IF Strip(h.text) = <<>>
    THEN [kind |-> "skipped", called |-> FALSE, data |-> <<>>]
    ELSE LET focused_context == extract_best_passage(question, h.text, PassageWindow)
         IN  IF focused_context.status = "raised"
             THEN [kind |-> "raised", called |-> FALSE, data |-> <<>>]
             ELSE LET result == CallSpanModel(self.qa, question, focused_context.value)
                  IN  IF result.status = "raised"
                      THEN [kind |-> "raised", called |-> TRUE, data |-> <<>>]
                      ELSE IF result.value.score > MinSpanScore
                      THEN [kind |-> "accepted", called |-> TRUE,
                            data |-> <<[answer |-> result.value.answer,
                                        score |-> result.value.score,
                                        source |-> h,
                                        context_snippet |->
                                            Truncate(focused_context.value,
                                                     ContextSnippetLimit)]>>]
                      ELSE [kind |-> "rejected", called |-> TRUE, data |-> <<>>]

\* a loop that ends at the first hit on which the span model raises
RECURSIVE AnswerLoopStopAtError(_, _, _, _)
AnswerLoopStopAtError(self, question, hits, j) ==
    IF j > Len(hits) THEN <<>>
    ELSE LET step == AnswerStep(self, question, hits[j])
         IN  IF step.kind = "raised"
             THEN <<step>>
             ELSE <<step>> \o AnswerLoopStopAtError(self, question, hits, j + 1)

\* for h in hits: the iterations from hit j on; an exception ends one iteration only
RECURSIVE AnswerLoop(_, _, _, _)
AnswerLoop(self, question, hits, j) ==
    IF j > Len(hits) THEN <<>>
    ELSE <<AnswerStep(self, question, hits[j])>> \o AnswerLoop(self, question, hits, j + 1)

\* all_answers after the loop
RECURSIVE AllAnswers(_)
AllAnswers(steps) ==
    IF steps = <<>> THEN <<>> ELSE Head(steps).data \o AllAnswers(Tail(steps))

\* a best_answer that a later answer with the same score replaces
RECURSIVE BestAnswerLatest(_, _, _)
BestAnswerLatest(all_answers, i, best) ==
    IF i > Len(all_answers) THEN best
    ELSE IF best = <<>> \/ all_answers[i].score >= best[1].score
    THEN BestAnswerLatest(all_answers, i + 1, <<all_answers[i]>>)
    ELSE BestAnswerLatest(all_answers, i + 1, best)

\* best_answer after the loop: a later answer replaces it only with a higher score
RECURSIVE BestAnswer(_, _, _)
BestAnswer(all_answers, i, best) ==
    IF i > Len(all_answers) THEN best
    ELSE IF best = <<>> \/ all_answers[i].score > best[1].score
    THEN BestAnswer(all_answers, i + 1, <<all_answers[i]>>)
    ELSE BestAnswer(all_answers, i + 1, best)

\* how often the loop called the span model
RECURSIVE CountCalled(_)
CountCalled(steps) ==
    IF steps = <<>> THEN 0
    ELSE (IF Head(steps).called THEN 1 ELSE 0) + CountCalled(Tail(steps))

\* what answer returned, and how often it called the span model on the way
Answered(v, n) == [status |-> "returned", value |-> v, qa_calls |-> n]

\* a snippet answer that passes the relevance score on as the confidence
SnippetAnswerUndiscounted(hits) ==
    [answer |-> Truncate(hits[1].text, AnswerLimit),
     score |-> hits[1].relevance_score,
     snippets |-> hits,
     confidence |-> hits[1].relevance_score,
     is_snippet |-> TRUE]

\* the fallback of answer: the most relevant snippet as the answer
SnippetAnswer(hits) ==
    [answer |-> Truncate(hits[1].text, AnswerLimit),
     score |-> hits[1].relevance_score,
     snippets |-> hits,
     confidence |-> Rational(7 * hits[1].relevance_score.num,
                             10 * hits[1].relevance_score.den),
     is_snippet |-> TRUE]

\* a no-answer result without its flag
NoAnswerUnflagged(hits) ==
    [answer |-> NoAnswerMessage,
     score |-> Rational(0, 1),
     snippets |-> hits,
     confidence |-> Rational(0, 1)]

\* the last return of answer: nothing was found
NoAnswer(hits) ==
    [answer |-> NoAnswerMessage,
     score |-> Rational(0, 1),
     snippets |-> hits,
     confidence |-> Rational(0, 1),
     no_answer |-> TRUE]

\* answer in span mode, from the loop over the hits to the end
SpanAnswer(self, question, hits) ==
        LET steps == AnswerLoop(self, question, hits, 1)
            all_answers == AllAnswers(steps)
            best_answer == BestAnswer(all_answers, 1, <<>>)
        IN  IF best_answer # <<>>
            THEN Answered([answer |-> best_answer[1].answer,
                           score |-> Rational(best_answer[1].score, 1000),
                           snippets |-> hits,
                           source |-> best_answer[1].source,
                           confidence |->
                               Rational(calculate_confidence(best_answer[1].score,
                                                             Len(all_answers)), 1000),
                           alternative_answers |->
                               SubSeq(all_answers, 1, Min(3, Len(all_answers)))],
                          CountCalled(steps))
            ELSE IF hits # <<>> /\ hits[1].text # <<>>
            THEN Answered(SnippetAnswer(hits), CountCalled(steps))
            ELSE Answered(NoAnswer(hits), CountCalled(steps))

\* an answer without the early return of snippet-only mode
answer_always_span(self, question, k) ==
    LET found == retrieve(self, question, k)
    IN  IF found.status = "raised" THEN found
        ELSE SpanAnswer(self, question, found.value)

\* RetrieverQA.answer; an exception of retrieve propagates
answer(self, question, k) ==
    LET found == retrieve(self, question, k)
    IN  IF found.status = "raised" THEN found
        ELSE IF self.snippets_only \/ self.qa = NoSpanModel
        THEN Answered([answer |-> None,
                       snippets |-> found.value,
                       confidence |-> Rational(0, 1)], 0)
        ELSE SpanAnswer(self, question, found.value)

(***************************************************************************)
(* Corpora: docs.jsonl as the ingestion pipeline leaves it.                *)
(***************************************************************************)
Doc(id, url, title, type, text) ==
    [id |-> id, url |-> url, title |-> title, type |-> type, text |-> text]

\* the number n in binary, written with the letters a and b
RECURSIVE NumText(_)
NumText(n) ==
    IF n < 2
    THEN <<IF n = 0 THEN "a" ELSE "b">>
    ELSE Append(NumText(n \div 2), IF n % 2 = 0 THEN "a" ELSE "b")

SmallDocs ==
    { Doc(1, "u1", "T1", "html", <<"a", " ", "b">>),
      Doc(2, "u2", "", "pdf", <<"b", "a">>),
      Doc(3, "u3", "T3", "html", <<" ">>),
      Doc(4, "u4", "T4", "html", <<>>) }

SmallCorpora == UNION {[1..n -> SmallDocs] : n \in 0..MaxDocs}

\* a corpus of n one-chunk documents with pairwise different texts
NumberedCorpus(n) == [i \in 1..n |-> Doc(i, "u", "t", "html", NumText(i))]

\* corpora around one and two full encoding batches
BatchCorpora ==
    { NumberedCorpus(n) :
        n \in {BatchSize - 1, BatchSize, BatchSize + 1, 2 * BatchSize + MaxDocs} }

InitBuild ==
    /\ chunks_file \in {build_chunks(docs) : docs \in SmallCorpora \cup BatchCorpora}
    /\ call = [op |-> "build_faiss"]
    /\ ret = Pending
    /\ faiss_file = NoFile
    /\ meta_file = NoFile
    /\ builder = Idle
    /\ reader = Idle
    /\ retriever = NoRetriever
    /\ crawler = NoCrawl

NextBuild == BuildFaiss

\* one run of build_faiss over a chunk file, on an empty index directory
SpecBuild == InitBuild /\ [][NextBuild]_vars

\* build_index.py run again: build_chunks rewrites the chunk file from the corpus
\* of the day, then build_faiss starts over
RunBuildChunks ==
    /\ builder.pc \in {"done", "SystemExit"}
    /\ \E docs \in SmallCorpora : chunks_file' = build_chunks(docs)
    /\ builder' = Idle
    /\ UNCHANGED <<call, ret, faiss_file, meta_file, reader, retriever, crawler>>

\* the files a complete run of build_faiss over chunk file f leaves on disk
BuiltIndexFile(f) ==
    [exists |-> TRUE, complete |-> TRUE, content |-> EncodeBatch([i \in 1..Len(f) |-> f[i].text])]

BuiltMetaFile(f) == [exists |-> TRUE, complete |-> TRUE, content |-> f]

\* an earlier run of build_index.py has persisted an index; the corpus has changed
\* since and build_chunks has written the chunk file of the new corpus
InitRebuild ==
    /\ chunks_file \in {build_chunks(docs) : docs \in SmallCorpora}
    /\ call = [op |-> "build_faiss"]
    /\ ret = Pending
    /\ \E old \in {build_chunks(docs) : docs \in SmallCorpora} :
          /\ old # <<>>
          /\ faiss_file = BuiltIndexFile(old)
          /\ meta_file = BuiltMetaFile(old)
    /\ builder = Idle
    /\ reader = Idle
    /\ retriever = NoRetriever
    /\ crawler = NoCrawl

\* one run of build_faiss over the directory of a persisted index
SpecBuildOver == InitRebuild /\ [][NextBuild]_vars

NextBuildRead == BuildFaiss \/ LoadRetriever

\* one run of build_faiss over the directory of a persisted index, while one process
\* constructs a retriever from that directory
SpecBuildRead == InitRebuild /\ [][NextBuildRead]_vars

NextRebuild == BuildFaiss \/ RunBuildChunks \/ LoadRetriever

\* builds and rebuilds of the index while one process constructs a retriever
SpecRebuild == InitRebuild /\ [][NextRebuild]_vars

(***************************************************************************)
(* The query path: a retriever is constructed over the files on disk and   *)
(* then serves queries.                                                    *)
(***************************************************************************)
LibraryCorpus ==
    << Doc(1, "u1", "T1", "html", <<"a", " ", "b">>),
       Doc(2, "u2", "", "pdf", <<"b", "a">>),
       Doc(3, "u3", "T3", "html", <<" ">>),
       Doc(5, "u5", "T5", "html", <<"b">>),
       Doc(6, "u6", "T6", "pdf", <<"a", "b", " ", "a">>),
       Doc(7, "u7", "T7", "html",
           [i \in 1..154 |-> IF i = 1 THEN "b" ELSE IF i = 154 THEN "a" ELSE " "]) >>

\* the chunk files of the library as it grew, one document at a time
QueryChunkFiles ==
    {build_chunks(SubSeq(LibraryCorpus, 1, n)) : n \in 1..Len(LibraryCorpus)}

UserQueries ==
    { <<"b">>,
      <<"W", "h", "a", "t", " ", "i", "s", " ", "a">>,
      <<"a", " ", "b">>,
      <<"h", "o", "w">>,
      <<"v", "c">>,
      <<"b", "a", " ">> }

BatchQueries == { <<"b">>, <<"h", "o", "w">> }

QueryLists == UNION {[1..n -> BatchQueries] : n \in 1..MaxBatch}

InitQuery ==
    /\ \/ \E f \in QueryChunkFiles :
             /\ chunks_file = f
             /\ faiss_file \in {BuiltIndexFile(f), NoFile}
             /\ meta_file \in {BuiltMetaFile(f), NoFile}
       \/ chunks_file = <<>> /\ faiss_file = NoFile /\ meta_file = NoFile
    /\ call = [op |-> "none"]
    /\ ret = Pending
    /\ builder = Idle
    /\ reader = Idle
    /\ retriever = NoRetriever
    /\ crawler = NoCrawl

Retrieve ==
    /\ retriever.kind = "RetrieverQA"
    /\ \E query \in UserQueries, k \in 1..MaxK :
          /\ call' = [op |-> "retrieve", query |-> query, k |-> k]
          /\ ret' = retrieve(retriever, query, k)
    /\ UNCHANGED <<chunks_file, faiss_file, meta_file, builder, reader, retriever, crawler>>

BatchRetrieve ==
    /\ retriever.kind = "RetrieverQA"
    /\ \E queries \in QueryLists, k \in 1..MaxK :
          /\ call' = [op |-> "batch_retrieve", queries |-> queries, k |-> k]
          /\ ret' = batch_retrieve(retriever, queries, k)
    /\ UNCHANGED <<chunks_file, faiss_file, meta_file, builder, reader, retriever, crawler>>

FallbackRetrieve ==
    /\ retriever.kind = "FallbackRetriever"
    /\ \E query \in UserQueries, k \in 1..MaxK :
          /\ call' = [op |-> "retrieve", query |-> query, k |-> k]
          /\ ret' = Returned(fallback_retrieve(query, k))
    /\ UNCHANGED <<chunks_file, faiss_file, meta_file, builder, reader, retriever, crawler>>

FallbackAnswer ==
    /\ retriever.kind = "FallbackRetriever"
    /\ \E question \in UserQueries, k \in 1..MaxK :
          /\ call' = [op |-> "answer", question |-> question, k |-> k]
          /\ ret' = Returned(fallback_answer(question, k))
    /\ UNCHANGED <<chunks_file, faiss_file, meta_file, builder, reader, retriever, crawler>>

\* answer asks for more hits than retrieve by default (k = 5 against k = 3)
GetSimilarDocuments ==
    /\ retriever.kind = "RetrieverQA"
    /\ \E query \in BatchQueries, k \in 1..MaxK :
          /\ call' = [op |-> "get_similar_documents", query |-> query, k |-> k]
          /\ ret' = get_similar_documents(retriever, query, k)
    /\ UNCHANGED <<chunks_file, faiss_file, meta_file, builder, reader, retriever, crawler>>

\* an answer call that switches the retriever to snippet-only mode once the span
\* model has raised on a hit
AnswerDegrading ==
    /\ retriever.kind = "RetrieverQA"
    /\ \E question \in UserQueries, k \in 1..(MaxK + 1) :
          /\ call' = [op |-> "answer", question |-> question, k |-> k]
          /\ ret' = answer(retriever, question, k)
          /\ retriever' =
                IF /\ ~retriever.snippets_only
                   /\ retriever.qa # NoSpanModel
                   /\ LET hits == retrieve(retriever, question, k).value
                      IN  \E j \in 1..Len(hits) :
                             AnswerStep(retriever, question, hits[j]).kind = "raised"
                THEN [retriever EXCEPT !.snippets_only = TRUE]
                ELSE retriever
    /\ UNCHANGED <<chunks_file, faiss_file, meta_file, builder, reader, crawler>>

Answer ==
    /\ retriever.kind = "RetrieverQA"
    /\ \E question \in UserQueries, k \in 1..(MaxK + 1) :
          /\ call' = [op |-> "answer", question |-> question, k |-> k]
          /\ ret' = answer(retriever, question, k)
    /\ UNCHANGED <<chunks_file, faiss_file, meta_file, builder, reader, retriever, crawler>>

NextQuery ==
    \/ LoadRetriever
    \/ Retrieve
    \/ GetSimilarDocuments
    \/ BatchRetrieve
    \/ Answer
    \/ FallbackRetrieve
    \/ FallbackAnswer

SpecQuery == InitQuery /\ [][NextQuery]_vars

\* the chunk files of the library in its first days
EarlyChunkFiles ==
    {build_chunks(SubSeq(LibraryCorpus, 1, n)) : n \in 1..3}

InitServe ==
    /\ \E f \in EarlyChunkFiles :
          /\ chunks_file = f
          /\ faiss_file \in {BuiltIndexFile(f), NoFile}
          /\ meta_file = BuiltMetaFile(f)
    /\ call = [op |-> "none"]
    /\ ret = Pending
    /\ builder = Idle
    /\ reader = Idle
    /\ retriever = NoRetriever
    /\ crawler = NoCrawl

\* a process that constructs a retriever over a small index and serves any sequence
\* of queries with it
SpecServe == InitServe /\ [][NextQuery]_vars

(***************************************************************************)
(* scraper/utils.py and scraper/crawl.py.  A URL is a record of its        *)
(* network location, its path and its fragment, each a text; hrefs are     *)
(* absolute.  crawl runs every batch of queued URLs on the threads of its  *)
(* pool: a worker is one call of process_url, and the steps of the workers *)
(* of a batch interleave.                                                  *)
(***************************************************************************)
Url(netloc, path, fragment) == [netloc |-> netloc, path |-> path, fragment |-> fragment]

\* an empty href, and the None normalize_url returns for it
NoUrl == Url(<<>>, <<>>, <<>>)

\* the URL as a str
UrlText(url) ==
    <<"h", "t", "t", "p", "s", ":", "/", "/">> \o url.netloc \o url.path
        \o (IF url.fragment = <<>> THEN <<>> ELSE <<"#">> \o url.fragment)

\* str.endswith
EndsWith(text, suffix) ==
    /\ Len(suffix) <= Len(text)
    /\ SubSeq(text, Len(text) - Len(suffix) + 1, Len(text)) = suffix

\* text.split('?')[0]
BeforeQuery(text) ==
    IF \E i \in 1..Len(text) : text[i] = "?"
    THEN SubSeq(text, 1, (CHOOSE i \in 1..Len(text) :
                             text[i] = "?" /\ \A j \in 1..(i - 1) : text[j] # "?") - 1)
    ELSE text

\* urljoin(base, href) of an absolute href, then urldefrag
normalize_url(base, href) ==
    IF href = NoUrl THEN NoUrl ELSE [href EXCEPT !.fragment = <<>>]

\* urlparse(url).netloc.endswith(allowed_netloc)
same_domain(url, allowed_netloc) == EndsWith(url.netloc, allowed_netloc)

is_pdf(url) ==
    /\ url # NoUrl
    /\ EndsWith(BeforeQuery(Lower(UrlText(url))), <<".", "p", "d", "f">>)

\* config.py
ALLOWED_NETLOC ==
    <<"h", "t", "t", "p", "s", ":", "/", "/", "s", "c", "e", "t", ".", "a", "c", ".", "i", "n", "/">>

CampusNetloc == <<"s", "c", "e", "t", ".", "a", "c", ".", "i", "n">>

\* the settings of ALLOWED_NETLOC: the one in config.py, which no network location
\* ends with, and the network location of BASE_URL
NetlocSettings == {ALLOWED_NETLOC, CampusNetloc}

BASE_URL == Url(CampusNetloc, <<"/">>, <<>>)

\* a page of the site, and a page of another site
Page(path) == Url(CampusNetloc, path, <<>>)

Elsewhere == Url(<<"x", ".", "o", "r", "g">>, <<"/">>, <<>>)

SiteUrls ==
    {BASE_URL, Page(<<"/", "a">>), Page(<<"/", "b">>), Page(<<"/", "d">>),
     Page(<<"/", "e">>), Page(<<"/", "f", ".", "P", "D", "F">>), Elsewhere}

TextHtml == <<"t", "e", "x", "t", "/", "h", "t", "m", "l">>

Response(raises, status_code, ctype, links) ==
    [raises |-> raises, status_code |-> status_code, ctype |-> ctype, links |-> links]

\* what session.get(url) gives on the site that is crawled: the home page links to
\* the about page from its menu and, with a fragment, from its text
Site(url) ==
    IF url = BASE_URL
    THEN Response(FALSE, 200, TextHtml \o <<";", " ", "u", "t", "f", "-", "8">>,
                  <<Page(<<"/", "a">>), Page(<<"/", "f", ".", "P", "D", "F">>), Elsewhere,
                    NoUrl, Url(CampusNetloc, <<"/", "a">>, <<"t">>)>>)
    ELSE IF url = Page(<<"/", "a">>)
    THEN Response(FALSE, 200, TextHtml,
                  <<BASE_URL, Page(<<"/", "b">>), Page(<<"/", "d">>), Page(<<"/", "e">>)>>)
    ELSE IF url = Page(<<"/", "d">>)
    THEN Response(FALSE, 200, <<"i", "m", "a", "g", "e", "/", "p", "n", "g">>, <<>>)
    ELSE IF url = Page(<<"/", "e">>)
    THEN Response(TRUE, 0, <<>>, <<>>)
    ELSE Response(FALSE, 404, TextHtml, <<>>)

\* one call of process_url on a thread of the pool
Worker(pc, url, link) == [pc |-> pc, url |-> url, link |-> link]

\* crawl(start_url) up to its while loop
CrawlAt(allowed_netloc, start_url) ==
    [pc |-> "loop",
     allowed_netloc |-> allowed_netloc,
     seen |-> {},
     html_pages |-> <<>>,
     pdf_links |-> <<>>,
     q |-> <<start_url>>,
     workers |-> <<>>,
     requests |-> [u \in SiteUrls |-> 0]]

\* while q and len(seen) < MAX_PAGES: the next batch is taken from the queue and
\* submitted to the pool
CrawlBatch ==
    /\ crawler.pc = "loop"
    /\ crawler.q # <<>> /\ Cardinality(crawler.seen) < MAX_PAGES
    /\ LET batch_size == Min(MaxWorkers,
                             Min(Len(crawler.q), MAX_PAGES - Cardinality(crawler.seen)))
       IN  crawler' =
             IF batch_size <= 0
             THEN [crawler EXCEPT !.pc = "return"]
             ELSE [crawler EXCEPT
                     !.pc = "waiting",
                     !.q = SubSeq(@, batch_size + 1, Len(@)),
                     !.workers = [i \in 1..batch_size |-> Worker("start", crawler.q[i], 0)]]
    /\ UNCHANGED <<call, ret, chunks_file, faiss_file, meta_file, builder, reader, retriever>>

\* the while condition fails
CrawlLoopEnd ==
    /\ crawler.pc = "loop"
    /\ ~(crawler.q # <<>> /\ Cardinality(crawler.seen) < MAX_PAGES)
    /\ crawler' = [crawler EXCEPT !.pc = "return"]
    /\ UNCHANGED <<call, ret, chunks_file, faiss_file, meta_file, builder, reader, retriever>>

\* for future in as_completed(futures): every worker of the batch has returned
CrawlJoin ==
    /\ crawler.pc = "waiting"
    /\ \A w \in 1..Len(crawler.workers) : crawler.workers[w].pc = "done"
    /\ crawler' = [crawler EXCEPT !.pc = "loop", !.workers = <<>>]
    /\ UNCHANGED <<call, ret, chunks_file, faiss_file, meta_file, builder, reader, retriever>>

\* sorted(list(set(...))) of a list, as the set of its items
CrawlReturn ==
    /\ crawler.pc = "return"
    /\ crawler' = [crawler EXCEPT !.pc = "done"]
    /\ ret' = Returned(
          [html_pages |-> {crawler.html_pages[i] : i \in 1..Len(crawler.html_pages)},
           pdf_links |-> {crawler.pdf_links[i] : i \in 1..Len(crawler.pdf_links)}])
    /\ UNCHANGED <<call, chunks_file, faiss_file, meta_file, builder, reader, retriever>>

\* if url in seen: return; if not same_domain(url, ALLOWED_NETLOC): return
ProcessCheck ==
    /\ crawler.pc = "waiting"
    /\ \E w \in 1..Len(crawler.workers) :
          /\ crawler.workers[w].pc = "start"
          /\ LET url == crawler.workers[w].url
             IN  crawler' =
                   IF url \in crawler.seen \/ ~same_domain(url, crawler.allowed_netloc)
                   THEN [crawler EXCEPT !.workers[w].pc = "done"]
                   ELSE [crawler EXCEPT !.workers[w].pc = "get"]
    /\ UNCHANGED <<call, ret, chunks_file, faiss_file, meta_file, builder, reader, retriever>>

\* rate_limit(REQUEST_DELAY); r = session.get(url, timeout=15)
ProcessGet ==
    /\ crawler.pc = "waiting"
    /\ \E w \in 1..Len(crawler.workers) :
          /\ crawler.workers[w].pc = "get"
          /\ LET url == crawler.workers[w].url
             IN  crawler' = [crawler EXCEPT
                                !.requests[url] = @ + 1,
                                !.workers[w].pc = IF Site(url).raises THEN "except" ELSE "response"]
    /\ UNCHANGED <<call, ret, chunks_file, faiss_file, meta_file, builder, reader, retriever>>

\* if r.status_code != 200: seen.add(url); return
ProcessNot200 ==
    /\ crawler.pc = "waiting"
    /\ \E w \in 1..Len(crawler.workers) :
          /\ crawler.workers[w].pc = "response"
          /\ LET url == crawler.workers[w].url
             IN  /\ Site(url).status_code # 200
                 /\ crawler' = [crawler EXCEPT !.seen = @ \cup {url}, !.workers[w].pc = "done"]
    /\ UNCHANGED <<call, ret, chunks_file, faiss_file, meta_file, builder, reader, retriever>>

\* if "text/html" not in ctype: a PDF is noted, the URL is seen, return
ProcessNotHtml ==
    /\ crawler.pc = "waiting"
    /\ \E w \in 1..Len(crawler.workers) :
          /\ crawler.workers[w].pc = "response"
          /\ LET url == crawler.workers[w].url
             IN  /\ Site(url).status_code = 200
                 /\ ~Contains(Site(url).ctype, TextHtml)
                 /\ crawler' = [crawler EXCEPT
                                   !.pdf_links = IF is_pdf(url) THEN Append(@, url) ELSE @,
                                   !.seen = @ \cup {url},
                                   !.workers[w].pc = "done"]
    /\ UNCHANGED <<call, ret, chunks_file, faiss_file, meta_file, builder, reader, retriever>>

\* html_pages.append(url); seen.add(url)
ProcessHtml ==
    /\ crawler.pc = "waiting"
    /\ \E w \in 1..Len(crawler.workers) :
          /\ crawler.workers[w].pc = "response"
          /\ LET url == crawler.workers[w].url
             IN  /\ Site(url).status_code = 200
                 /\ Contains(Site(url).ctype, TextHtml)
                 /\ crawler' = [crawler EXCEPT
                                   !.html_pages = Append(@, url),
                                   !.seen = @ \cup {url},
                                   !.workers[w].pc =
                                       IF Site(url).links = <<>> THEN "done" ELSE "links",
                                   !.workers[w].link = 1]
    /\ UNCHANGED <<call, ret, chunks_file, faiss_file, meta_file, builder, reader, retriever>>

\* one iteration of the loop over the links of the page
ProcessLink ==
    /\ crawler.pc = "waiting"
    /\ \E w \in 1..Len(crawler.workers) :
          /\ crawler.workers[w].pc = "links"
          /\ LET url == crawler.workers[w].url
                 link == crawler.workers[w].link
                 href == normalize_url(url, Site(url).links[link])
                 next == IF link = Len(Site(url).links) THEN "done" ELSE "links"
             IN  crawler' =
                   IF href = NoUrl
                   THEN [crawler EXCEPT !.workers[w].pc = next, !.workers[w].link = @ + 1]
                   ELSE IF is_pdf(href)
                   THEN [crawler EXCEPT
                           !.pdf_links = IF same_domain(href, crawler.allowed_netloc)
                                         THEN Append(@, href) ELSE @,
                           !.workers[w].pc = next, !.workers[w].link = @ + 1]
                   ELSE [crawler EXCEPT
                           !.q = IF same_domain(href, crawler.allowed_netloc)
                                      /\ href \notin crawler.seen
                                 THEN Append(@, href) ELSE @,
                           !.workers[w].pc = next, !.workers[w].link = @ + 1]
    /\ UNCHANGED <<call, ret, chunks_file, faiss_file, meta_file, builder, reader, retriever>>

\* except Exception: seen.add(url)
ProcessExcept ==
    /\ crawler.pc = "waiting"
    /\ \E w \in 1..Len(crawler.workers) :
          /\ crawler.workers[w].pc = "except"
          /\ crawler' = [crawler EXCEPT
                            !.seen = @ \cup {crawler.workers[w].url},
                            !.workers[w].pc = "done"]
    /\ UNCHANGED <<call, ret, chunks_file, faiss_file, meta_file, builder, reader, retriever>>

\* a step of one worker of the batch
process_url ==
    \/ ProcessCheck
    \/ ProcessGet
    \/ ProcessNot200
    \/ ProcessNotHtml
    \/ ProcessHtml
    \/ ProcessLink
    \/ ProcessExcept

InitCrawl ==
    /\ call = [op |-> "crawl", start_url |-> BASE_URL]
    /\ ret = Pending
    /\ chunks_file = <<>>
    /\ faiss_file = NoFile
    /\ meta_file = NoFile
    /\ builder = Idle
    /\ reader = Idle
    /\ retriever = NoRetriever
    /\ \E allowed_netloc \in NetlocSettings : crawler = CrawlAt(allowed_netloc, BASE_URL)

NextCrawl ==
    \/ CrawlBatch
    \/ CrawlLoopEnd
    \/ CrawlJoin
    \/ CrawlReturn
    \/ process_url

\* one run of crawl over the site
SpecCrawl == InitCrawl /\ [][NextCrawl]_vars

(***************************************************************************)
(* The pure functions, each applied to inputs drawn from bounded sets.     *)
(***************************************************************************)
Texts(alphabet, maxlen) == UNION {[1..n -> alphabet] : n \in 0..maxlen}

ChunkAlphabet == {"a", "b", " "}

RouteAlphabet == {"h", "o", "d", "H", " "}

RouteExamples ==
    { None,
      <<"f", "a", "c", "u", "l", "t", "y", " ", "l", "i", "s", "t">>,
      <<"w", "e", "a", "t", "h", "e", "r", " ", "t", "o", "d", "a", "y">>,
      <<"S", "C", "E", "T", " ", "f", "e", "e", "s">>,
      <<"I", "T", " ", "D", "e", "p", "a", "r", "t", "m", "e", "n", "t">> }

Questions == { <<>>, <<"b">>, <<"a", " ", "b">>, <<"B", " ", "a", "b">> }

ChunkCalls ==
    { [op |-> "chunk_text", text |-> t, size |-> s, overlap |-> o] :
        t \in Texts(ChunkAlphabet, MaxTextLen), s \in 1..MaxSize, o \in 0..(MaxSize - 1) }

RouteCalls ==
    { [op |-> "pick_route", query |-> q, has_local |-> h] :
        q \in Texts(RouteAlphabet, MaxSize - 1) \cup RouteExamples, h \in BOOLEAN }

PassageCalls ==
    { [op |-> "extract_best_passage", question |-> q, text |-> t, window_size |-> w] :
        q \in Questions, t \in Texts(ChunkAlphabet, MaxTextLen), w \in 1..MaxSize }

\* a text of n times the character c
Repeat(c, n) == [i \in 1..n |-> c]

\* documents around the configured chunk size and step
PageDocs ==
    { Doc(1, "u1", "T1", "html", <<"a", " ", "b">>),
      Doc(2, "u2", "T2", "html", Repeat("a", CHUNK_SIZE - CHUNK_OVERLAP)),
      Doc(3, "u3", "T3", "pdf", Repeat("b", CHUNK_SIZE - CHUNK_OVERLAP + 1)),
      Doc(4, "u4", "", "html", Repeat("a", CHUNK_SIZE - 1)),
      Doc(5, "u5", "T5", "html", <<" ">>),
      Doc(6, "u6", "T6", "html", <<" ", "a">>),
      Doc(7, "u7", "T7", "html", <<>>) }

BuildChunksCalls == { [op |-> "build_chunks", docs |-> docs] : docs \in [1..3 -> PageDocs] }

\* span-model scores from 0.0 to 1.0 in steps of 0.05
ScoreSamples == {50 * i : i \in 0..20}

ConfidenceCalls ==
    { [op |-> "calculate_confidence", qa_score |-> s, num_answers |-> n] :
        s \in ScoreSamples, n \in 0..MaxAnswers }

QueryAlphabet == {"d", "o", "D", " "}

QueryExamples ==
    { <<"W", "h", "a", "t", " ", "i", "s", " ", "a">>,
      <<"H", "o", "w", " ", " ", "D", "O", " ">>,
      <<" ", "x", " ", "I", "s", "\t", "y", " ", "d", "o">>,
      <<"d", "o", "e", "s", " ", "d", "o", "e">> }

PreprocessCalls ==
    { [op |-> "preprocess_query", query |-> q] :
        q \in Texts(QueryAlphabet, MaxSize) \cup QueryExamples }

PureCalls ==
    {c \in ChunkCalls : c.size > c.overlap} \cup RouteCalls \cup PassageCalls
        \cup ConfidenceCalls \cup BuildChunksCalls \cup PreprocessCalls

Init ==
    /\ call \in PureCalls
    /\ ret = Pending
    /\ chunks_file = <<>>
    /\ faiss_file = NoFile
    /\ meta_file = NoFile
    /\ builder = Idle
    /\ reader = Idle
    /\ retriever = NoRetriever
    /\ crawler = NoCrawl

CallChunkText ==
    /\ call.op = "chunk_text" /\ ret = Pending
    /\ ret' = Returned(chunk_text(call.text, call.size, call.overlap))
    /\ UNCHANGED <<call, chunks_file, faiss_file, meta_file, builder, reader, retriever, crawler>>

CallPickRoute ==
    /\ call.op = "pick_route" /\ ret = Pending
    /\ ret' = Returned(pick_route(call.query, call.has_local))
    /\ UNCHANGED <<call, chunks_file, faiss_file, meta_file, builder, reader, retriever, crawler>>

CallExtractBestPassage ==
    /\ call.op = "extract_best_passage" /\ ret = Pending
    /\ ret' = extract_best_passage(call.question, call.text, call.window_size)
    /\ UNCHANGED <<call, chunks_file, faiss_file, meta_file, builder, reader, retriever, crawler>>

CallCalculateConfidence ==
    /\ call.op = "calculate_confidence" /\ ret = Pending
    /\ ret' = Returned(calculate_confidence(call.qa_score, call.num_answers))
    /\ UNCHANGED <<call, chunks_file, faiss_file, meta_file, builder, reader, retriever, crawler>>

\* build_chunks reads docs.jsonl and writes the chunk file
CallBuildChunks ==
    /\ call.op = "build_chunks" /\ ret = Pending
    /\ chunks_file' = build_chunks(call.docs)
    /\ ret' = Returned(None)
    /\ UNCHANGED <<call, faiss_file, meta_file, builder, reader, retriever, crawler>>

CallPreprocessQuery ==
    /\ call.op = "preprocess_query" /\ ret = Pending
    /\ ret' = Returned(preprocess_query(call.query))
    /\ UNCHANGED <<call, chunks_file, faiss_file, meta_file, builder, reader, retriever, crawler>>

Next ==
    \/ CallChunkText
    \/ CallPickRoute
    \/ CallExtractBestPassage
    \/ CallCalculateConfidence
    \/ CallBuildChunks
    \/ CallPreprocessQuery

Spec == Init /\ [][Next]_vars

(***************************************************************************)
(* Claims about chunk_text.                                                *)
(***************************************************************************)
IsChunkReturn == call.op = "chunk_text" /\ ret.status = "returned"

\* the offsets two spans have in common
SharedOffsets(s, t) == {p \in s.start..(s.end - 1) : t.start <= p /\ p < t.end}

CeilDiv(a, b) == -((-a) \div b)

\* every offset of the stripped text lies in a returned chunk, and chunk k is the
\* text between the offsets of span k
ChunksCoverText ==
    LET stripped == Strip(call.text)
        spans == ChunkSpans(call.text, call.size, call.overlap)
    IN  /\ Len(ret.value) = Len(spans)
        /\ \A k \in 1..Len(spans) :
              ret.value[k] = Slice(stripped, spans[k].start, spans[k].end)
        /\ \A p \in 0..(Len(stripped) - 1) :
              \E k \in 1..Len(spans) : spans[k].start <= p /\ p < spans[k].end

\* C1 as stated: the chunks cover every offset of the stripped text, and every pair
\* of consecutive chunks shares exactly `overlap` characters, except possibly the
\* pair that ends in the final, shorter chunk.
C1_Original ==
    IsChunkReturn =>
        LET spans == ChunkSpans(call.text, call.size, call.overlap)
        IN  /\ ChunksCoverText
            /\ \A k \in 1..(Len(spans) - 1) :
                  \/ Cardinality(SharedOffsets(spans[k], spans[k + 1])) = call.overlap
                  \/ /\ k + 1 = Len(spans)
                     /\ Len(ret.value[k + 1]) < call.size

\* C1 as amended: the chunks cover every offset of the stripped text; a pair of
\* consecutive chunks shares exactly `overlap` characters when the earlier chunk of
\* the pair is full-size, and fewer when the end of the text cut the earlier chunk
\* short.
C1_CoverageAndOverlap ==
    IsChunkReturn =>
        LET spans == ChunkSpans(call.text, call.size, call.overlap)
        IN  /\ ChunksCoverText
            /\ \A k \in 1..(Len(spans) - 1) :
                  LET shared == Cardinality(SharedOffsets(spans[k], spans[k + 1]))
                  IN  IF Len(ret.value[k]) = call.size
                      THEN shared = call.overlap
                      ELSE shared < call.overlap

\* chunk_text returned three chunks or more, with a positive overlap, a full-size
\* chunk followed by another, and a cut-short chunk followed by another
C1_Witness ==
    /\ IsChunkReturn
    /\ call.overlap > 0
    /\ Len(ret.value) >= 3
    /\ \E k \in 1..(Len(ret.value) - 1) : Len(ret.value[k]) = call.size
    /\ \E k \in 1..(Len(ret.value) - 1) : Len(ret.value[k]) < call.size

\* C2 as stated: for stripped length L > 0 chunk_text returns exactly
\* ceil((L - O) / (S - O)) chunks, and 0 chunks for empty text.
C2_Original ==
    IsChunkReturn =>
        LET L == Len(Strip(call.text))
        IN  Len(ret.value) =
                IF L > 0 THEN CeilDiv(L - call.overlap, call.size - call.overlap) ELSE 0

\* C2 as amended: for stripped length L > 0 chunk_text returns exactly
\* ceil(L / (S - O)) chunks, and 0 chunks for empty text.
C2_ChunkCount ==
    IsChunkReturn =>
        LET L == Len(Strip(call.text))
        IN  Len(ret.value) = IF L > 0 THEN CeilDiv(L, call.size - call.overlap) ELSE 0

\* chunk_text returned more chunks than ceil((L - O) / (S - O)), on a text longer
\* than the overlap
C2_Witness ==
    /\ IsChunkReturn
    /\ Len(Strip(call.text)) > call.overlap
    /\ call.overlap > 0
    /\ Len(ret.value) > CeilDiv(Len(Strip(call.text)) - call.overlap,
                                call.size - call.overlap)

(***************************************************************************)
(* Claims about pick_route.                                                *)
(***************************************************************************)
IsRouteReturn == call.op = "pick_route" /\ ret.status = "returned"

\* the query, lower-cased, holds a domain hint at some offset; None and "" hold none
QueryHasHint ==
    /\ call.query # None
    /\ \E hint \in SCET_HINTS :
          \E i \in 1..Len(call.query) :
              /\ i + Len(hint) - 1 <= Len(call.query)
              /\ \A j \in 1..Len(hint) : LowerChar(call.query[i + j - 1]) = hint[j]

\* C8: a query with a domain hint is routed to local+web when has_local holds and
\* to web only when it does not; a query with no hint (None and "" included) is
\* routed to use_local = has_local, use_web = TRUE.
C8_RouteFlags ==
    IsRouteReturn =>
        IF QueryHasHint
        THEN IF call.has_local
             THEN ret.value.use_local = TRUE /\ ret.value.use_web = TRUE
             ELSE ret.value.use_local = FALSE /\ ret.value.use_web = TRUE
        ELSE ret.value.use_local = call.has_local /\ ret.value.use_web = TRUE

\* pick_route returned for a query with a hint in upper case and no local index
C8_Witness ==
    /\ IsRouteReturn
    /\ QueryHasHint
    /\ call.query # Lower(call.query)
    /\ ~call.has_local
    /\ ret.value.reason = "SCET query -> web only"

\* the queries pick_route is called with
RouteQueries == {c.query : c \in RouteCalls}

\* C29: for every query and both values of has_local, the Route pick_route returns
\* has use_web = True and use_local = has_local; a domain hint in the query changes
\* only the reason, so every other query gets the same two flags for the same
\* has_local; and a second call with the same inputs returns an equal Route.
C29_FlagsIndependentOfHint ==
    IsRouteReturn =>
        /\ ret.value.use_web = TRUE
        /\ ret.value.use_local = call.has_local
        /\ \A other \in RouteQueries :
              LET route == pick_route(other, call.has_local)
              IN  /\ route.use_web = ret.value.use_web
                  /\ route.use_local = ret.value.use_local
        /\ pick_route(call.query, call.has_local) = ret.value

\* pick_route returned the hybrid route for a query with a domain hint and a local
\* index, with another reason than for a query without a hint
C29_Witness ==
    /\ IsRouteReturn
    /\ QueryHasHint
    /\ call.has_local
    /\ ret.value.reason = "SCET query -> hybrid"
    /\ \E other \in RouteQueries :
          pick_route(other, call.has_local).reason = "Default hybrid"

(***************************************************************************)
(* Claims about extract_best_passage.                                      *)
(***************************************************************************)
IsPassageReturn == call.op = "extract_best_passage" /\ ret.status = "returned"

\* C9: for len(text) <= window_size, extract_best_passage returns the text unchanged.
C9_ShortTextUnchanged ==
    (IsPassageReturn /\ Len(call.text) <= call.window_size) => ret.value = call.text

\* extract_best_passage returned for a text of exactly window_size characters of
\* which a proper suffix shares a word with the question and the whole text does not
C9_Witness ==
    /\ IsPassageReturn
    /\ Len(call.text) = call.window_size
    /\ WordSet(call.question) \cap WordSet(call.text) = {}
    /\ \E i \in 1..(Len(call.text) - 1) :
          WordSet(call.question) \cap WordSet(Slice(call.text, i, Len(call.text))) # {}

\* the offsets i = 0, h, 2h, ... below len(text), for h = window_size // 2
WindowStarts ==
    {i \in 0..(Len(call.text) - 1) : i % (call.window_size \div 2) = 0}

LastWindowStart == CHOOSE i \in WindowStarts : \A j \in WindowStarts : j <= i

\* C10 as stated: for len(text) > window_size the returned span is one of the
\* generated windows, and is exactly window_size characters long except possibly
\* when it is the last generated window.
C10_Original ==
    (IsPassageReturn /\ Len(call.text) > call.window_size) =>
        \E i \in WindowStarts :
            /\ ret.value = Slice(call.text, i, i + call.window_size)
            /\ Len(ret.value) = call.window_size \/ i = LastWindowStart

\* C10 as amended: for len(text) > window_size the returned span is one of the
\* generated windows, and is exactly window_size characters long except possibly
\* when it is one of the trailing windows, those that start fewer than window_size
\* characters before the end of the text.
C10_ReturnsWindow ==
    (IsPassageReturn /\ Len(call.text) > call.window_size) =>
        \E i \in WindowStarts :
            /\ ret.value = Slice(call.text, i, i + call.window_size)
            /\ Len(ret.value) = call.window_size \/ i + call.window_size > Len(call.text)

\* extract_best_passage returned a window shorter than window_size that is not the
\* last generated window
C10_Witness ==
    /\ IsPassageReturn
    /\ Len(call.text) > call.window_size
    /\ Len(ret.value) < call.window_size
    /\ ret.value # Slice(call.text, LastWindowStart, LastWindowStart + call.window_size)

\* C15: chunk_text on empty or whitespace-only text returns an empty sequence and
\* raises no error; on any other text (with size > overlap >= 0) it returns at
\* least one chunk and every returned chunk is non-empty.
C15_EmptyInputNoChunks ==
    (call.op = "chunk_text" /\ ret # Pending) =>
        /\ ret.status = "returned"
        /\ IF Strip(call.text) = <<>>
           THEN ret.value = <<>>
           ELSE /\ Len(ret.value) >= 1
                /\ \A i \in 1..Len(ret.value) : ret.value[i] # <<>>

\* chunk_text has returned for a text of nothing but whitespace
C15_Witness ==
    /\ IsChunkReturn
    /\ Len(call.text) >= 2
    /\ Strip(call.text) = <<>>
    /\ ret.value = <<>>

(***************************************************************************)
(* Claims about build_chunks.                                              *)
(***************************************************************************)
IsBuildChunksReturn == call.op = "build_chunks" /\ ret.status = "returned"

\* C12 as stated: with the configured chunk size 800 and overlap 150, build_chunks
\* over a corpus of 3 documents, each with non-empty text under 800 characters,
\* writes exactly 3 chunk records: one per document, each with chunk_id 0 and
\* holding the whole document text.
C12_Original ==
    (/\ IsBuildChunksReturn
     /\ Len(call.docs) = 3
     /\ \A d \in 1..3 : call.docs[d].text # <<>> /\ Len(call.docs[d].text) < CHUNK_SIZE)
    => /\ Len(chunks_file) = 3
       /\ \A d \in 1..3 :
             /\ chunks_file[d].doc_id = call.docs[d].id
             /\ chunks_file[d].chunk_id = 0
             /\ chunks_file[d].text = call.docs[d].text

\* C12: with the configured chunk size 800 and overlap 150, build_chunks over a
\* corpus of 3 documents, each with a text that, stripped of surrounding whitespace,
\* has between 1 and 650 (= 800 - 150) characters, writes exactly 3 chunk records:
\* one per document, each with chunk_id 0 and holding the stripped document text.
C12_OneChunkPerDocument ==
    (/\ IsBuildChunksReturn
     /\ Len(call.docs) = 3
     /\ \A d \in 1..3 :
           Len(Strip(call.docs[d].text)) \in 1..(CHUNK_SIZE - CHUNK_OVERLAP))
    => /\ Len(chunks_file) = 3
       /\ \A d \in 1..3 :
             /\ chunks_file[d].doc_id = call.docs[d].id
             /\ chunks_file[d].chunk_id = 0
             /\ chunks_file[d].text = Strip(call.docs[d].text)

\* build_chunks has run over three documents of one chunk each, one of them as long
\* as the chunk step and one with leading whitespace
C12_Witness ==
    /\ IsBuildChunksReturn
    /\ \A d \in 1..3 : Len(Strip(call.docs[d].text)) \in 1..(CHUNK_SIZE - CHUNK_OVERLAP)
    /\ \E d \in 1..3 : Len(call.docs[d].text) = CHUNK_SIZE - CHUNK_OVERLAP
    /\ \E d \in 1..3 : Strip(call.docs[d].text) # call.docs[d].text
    /\ Len(chunks_file) = 3

(***************************************************************************)
(* Claims about calculate_confidence.                                      *)
(***************************************************************************)
IsConfidenceReturn == call.op = "calculate_confidence" /\ ret.status = "returned"

\* C11: calculate_confidence is monotone and clamped: for every model score s and
\* counts n <= n', and for every s <= s', calculate_confidence(s, n) <=
\* calculate_confidence(s, n') and calculate_confidence(s, n) <=
\* calculate_confidence(s', n); the result never exceeds 1.0.
C11_ConfidenceMonotoneClamped ==
    IsConfidenceReturn =>
        /\ ret.value <= 1000
        /\ \A n \in call.num_answers..MaxAnswers :
              ret.value <= calculate_confidence(call.qa_score, n)
        /\ \A s \in {x \in ScoreSamples : x >= call.qa_score} :
              ret.value <= calculate_confidence(s, call.num_answers)

\* the agreement boost has reached its cap of 0.2 and the sum is clamped to 1.0
C11_Witness ==
    /\ IsConfidenceReturn
    /\ call.num_answers * 50 > 200
    /\ call.qa_score < 1000
    /\ call.qa_score + 200 > 1000
    /\ ret.value = 1000

\* the number of tokens the window starting at offset i shares with the question
WindowOverlap(i) ==
    Cardinality(WordSet(call.question)
                    \cap WordSet(Slice(call.text, i, i + call.window_size)))

\* C23: for text longer than window_size, extract_best_passage returns the generated
\* window whose lower-cased whitespace-token set shares the most tokens with the
\* question's token set; among windows with the same maximal count it returns the
\* earliest one; when no window shares any token it returns the first window_size
\* characters of the text.
C23_BestWindow ==
    (IsPassageReturn /\ Len(call.text) > call.window_size) =>
        LET best == CHOOSE i \in WindowStarts :
                        \A j \in WindowStarts :
                            \/ WindowOverlap(i) > WindowOverlap(j)
                            \/ WindowOverlap(i) = WindowOverlap(j) /\ i <= j
        IN  /\ ret.value = Slice(call.text, best, best + call.window_size)
            /\ (\A i \in WindowStarts : WindowOverlap(i) = 0) =>
                  ret.value = SubSeq(call.text, 1, call.window_size)

\* two windows share the same largest number of tokens with the question, the first
\* window shares fewer, and the earlier of the two is returned
C23_Witness ==
    /\ IsPassageReturn
    /\ Len(call.text) > call.window_size
    /\ \E i, j \in WindowStarts :
          /\ 0 < i /\ i < j
          /\ WindowOverlap(i) = WindowOverlap(j)
          /\ WindowOverlap(i) > WindowOverlap(0)
          /\ \A m \in WindowStarts : WindowOverlap(m) <= WindowOverlap(i)
          /\ Slice(call.text, i, i + call.window_size)
                # Slice(call.text, j, j + call.window_size)
          /\ ret.value = Slice(call.text, i, i + call.window_size)

(***************************************************************************)
(* Claims about preprocess_query.                                          *)
(***************************************************************************)
IsPreprocessReturn == call.op = "preprocess_query" /\ ret.status = "returned"

\* the stop list of the claim
StopList ==
    { <<"w", "h", "a", "t">>, <<"w", "h", "o">>, <<"w", "h", "e", "r", "e">>,
      <<"w", "h", "e", "n">>, <<"w", "h", "y">>, <<"h", "o", "w">>, <<"i", "s">>,
      <<"a", "r", "e">>, <<"d", "o">>, <<"d", "o", "e", "s">>, <<"d", "i", "d">>,
      <<"c", "a", "n">>, <<"c", "o", "u", "l", "d">> }

NotStopWord(word) == word \notin StopList

\* the tokens of the lower-cased stripped query that are not in the stop list
KeptTokens == SelectSeq(Split(Strip(Lower(call.query))), NotStopWord)

\* C26: preprocess_query lower-cases and strips the query and removes every token
\* of the stop list, keeping the other tokens in their order, joined by one space;
\* when no token is left it returns the lower-cased stripped query; applying
\* preprocess_query to its own output returns that output unchanged.
C26_PreprocessQuery ==
    IsPreprocessReturn =>
        /\ KeptTokens # <<>> =>
              /\ Split(ret.value) = KeptTokens
              /\ Len(ret.value) = Len(Flatten(KeptTokens)) + Len(KeptTokens) - 1
              /\ \A i \in 1..Len(ret.value) : ret.value[i] \in Whitespace => ret.value[i] = " "
        /\ KeptTokens = <<>> => ret.value = Strip(Lower(call.query))
        /\ preprocess_query(ret.value) = ret.value

\* a query in mixed case with a stop word in front of, or behind, a token that is
\* kept: the result is neither the query nor its lower-cased stripped form
C26_Witness ==
    /\ IsPreprocessReturn
    /\ KeptTokens # <<>>
    /\ Len(KeptTokens) < Len(Split(call.query))
    /\ Lower(call.query) # call.query
    /\ ret.value # Strip(Lower(call.query))

(***************************************************************************)
(* Claims about build_faiss.                                               *)
(***************************************************************************)
\* C3: after build_faiss completes over N >= 1 chunk records, the vector index holds
\* exactly N vectors, the metadata file holds exactly N records, and the i-th vector
\* is the encoding of the text of the i-th metadata record, which is the i-th record
\* of the chunk file.
C3_IndexMetaAligned ==
    builder.pc = "done" =>
        LET N == Len(chunks_file)
        IN  /\ N >= 1
            /\ faiss_file.complete /\ Len(faiss_file.content) = N
            /\ meta_file.complete /\ Len(meta_file.content) = N
            /\ \A i \in 1..N :
                  /\ meta_file.content[i] = chunks_file[i]
                  /\ faiss_file.content[i] = Encode(meta_file.content[i].text)

\* build_faiss completed over two full encoding batches and a remainder
C3_Witness ==
    /\ builder.pc = "done"
    /\ Len(chunks_file) > 2 * BatchSize
    /\ Len(chunks_file) % BatchSize # 0
    /\ Len(builder.vectors) = 3
    /\ Len(meta_file.content) = Len(chunks_file)

\* the index and the metadata a complete build over chunk file f persists
BuiltFrom(index, metas, f) ==
    /\ metas = f
    /\ index = [i \in 1..Len(f) |-> Encode(f[i].text)]

SmallChunkFiles == {build_chunks(docs) : docs \in SmallCorpora}

\* C4: a reader that loads the persisted index while build_faiss rebuilds it loads
\* the complete index of one build together with the complete metadata of that same
\* build, never the index of one build with the metadata of another and never a
\* partially written file.
C4_ReaderSeesWholeBuild ==
    retriever.kind = "RetrieverQA" =>
        \E f \in SmallChunkFiles : BuiltFrom(retriever.index, retriever.metas, f)

\* C27: a rebuild replaces the persisted index wholesale and is idempotent: when
\* build_faiss has completed, the vector index file and the metadata file hold
\* exactly the vectors and the records of the chunks of the current chunk file,
\* whatever an earlier build had persisted (more chunks, fewer, or the very same
\* chunk file, in which case the files are those the earlier build left).
C27_RebuildReplacesWholesale ==
    builder.pc = "done" =>
        /\ faiss_file = BuiltIndexFile(chunks_file)
        /\ meta_file = BuiltMetaFile(chunks_file)

\* build_faiss has completed over a chunk file with fewer chunks than the earlier
\* build had persisted; a retriever constructed before the rebuild still holds the
\* index and the metadata of that earlier build
C27_Witness ==
    /\ builder.pc = "done"
    /\ retriever.kind = "RetrieverQA"
    /\ \E f \in SmallChunkFiles : BuiltFrom(retriever.index, retriever.metas, f)
    /\ Len(retriever.metas) > Len(chunks_file)
    /\ \A i \in 1..Len(chunks_file) : chunks_file[i] # retriever.metas[i]
    /\ meta_file.content = chunks_file

\* C14: when the chunk file holds zero chunk records, build_faiss stops with a fatal
\* build-time error (SystemExit) and writes neither the vector index file nor the
\* metadata file, so a previously persisted index and its metadata are left
\* unchanged: every step of such a build leaves both files as they are, and the
\* step after the chunk file has been read raises SystemExit.
C14_ZeroChunksFatal ==
    [][(/\ chunks_file = <<>>
        /\ builder' # builder
        /\ builder.pc \notin {"done", "SystemExit"})
       => /\ faiss_file' = faiss_file
          /\ meta_file' = meta_file
          /\ builder'.pc \in {"reading", "stack", "SystemExit"}
          /\ builder.pc = "stack" => builder'.pc = "SystemExit"]_vars

\* build_faiss has raised SystemExit over an empty chunk file, next to the complete
\* index and metadata of an earlier build
C14_Witness ==
    /\ builder.pc = "SystemExit"
    /\ chunks_file = <<>>
    /\ \E old \in SmallChunkFiles :
          /\ old # <<>>
          /\ faiss_file = BuiltIndexFile(old)
          /\ meta_file = BuiltMetaFile(old)

(***************************************************************************)
(* Claims about the query path.                                            *)
(***************************************************************************)
IsRetrieveReturn ==
    call.op = "retrieve" /\ ret.status = "returned" /\ retriever.kind = "RetrieverQA"

\* C5: no hit returned by RetrieverQA.retrieve has a raw similarity below 0.1.
C5_NoiseFloor ==
    IsRetrieveReturn => \A j \in 1..Len(ret.value) : ret.value[j].score >= NoiseFloor

\* retrieve returned a hit although a chunk among the neighbours searched for scores
\* below 0.1 for the query
C5_Witness ==
    /\ IsRetrieveReturn
    /\ ret.value # <<>>
    /\ call.k * 3 >= Len(retriever.index)
    /\ \E i \in 1..Len(retriever.index) :
          InnerProduct(Encode(preprocess_query(call.query)), retriever.index[i])
              \in 0..(NoiseFloor - 1)

\* C13 as stated: for every query and k, retrieve(query, k) returns at most k hits
\* and the returned hits are ordered by descending raw similarity score.
C13_Original ==
    IsRetrieveReturn =>
        /\ Len(ret.value) <= call.k
        /\ \A j \in 1..(Len(ret.value) - 1) : ret.value[j].score >= ret.value[j + 1].score

\* C13: for every query and k, retrieve(query, k) returns at most k hits and the
\* returned hits are ordered by descending relevance score (the blend of raw
\* similarity, keyword overlap and length bonus), not by raw similarity.
C13_AtMostKByRelevance ==
    IsRetrieveReturn =>
        /\ Len(ret.value) <= call.k
        /\ \A j \in 1..(Len(ret.value) - 1) :
              ~RelevanceGreater(ret.value[j + 1], ret.value[j])

\* retrieve has returned k hits out of more candidates above the noise floor, the
\* first of them with a lower raw similarity than the second
C13_Witness ==
    /\ IsRetrieveReturn
    /\ Len(ret.value) = call.k
    /\ call.k >= 2
    /\ ret.value[1].score < ret.value[2].score
    /\ RelevanceGreater(ret.value[1], ret.value[2])
    /\ Cardinality({i \in 1..Len(retriever.index) :
            InnerProduct(Encode(preprocess_query(call.query)), retriever.index[i])
                >= NoiseFloor}) > call.k

\* the raw similarity of the chunk at position i (1-based) to the query of the call
QuerySimilarity(i) ==
    InnerProduct(Encode(preprocess_query(call.query)), retriever.index[i])

\* the number of chunks that are nearer to the query than the chunk at position i
NearerChunks(i) ==
    Cardinality({j \in 1..Len(retriever.index) :
        \/ QuerySimilarity(j) > QuerySimilarity(i)
        \/ QuerySimilarity(j) = QuerySimilarity(i) /\ j < i})

\* the positions among the k*3 nearest neighbours with a raw similarity of 0.1 or more
Candidates ==
    {i \in 1..Len(retriever.index) :
        NearerChunks(i) < call.k * 3 /\ QuerySimilarity(i) >= NoiseFloor}

\* the hit that describes the chunk at position i
CandidateHit(i) ==
    LET rec == retriever.metas[i]
    IN  [score |-> QuerySimilarity(i),
         relevance_score |->
             calculate_relevance_score(call.query, rec.text, QuerySimilarity(i)),
         title |-> IF rec.title # "" THEN rec.title ELSE rec.url,
         url |-> rec.url,
         text |-> rec.text,
         type |-> rec.type,
         length |-> Len(rec.text)]

\* C24: retrieve(query, k) returns its hits in non-increasing order of relevance
\* score; the returned hits are min(k, number of candidates) of the candidates, the
\* chunks among the k*3 nearest neighbours by raw similarity with a raw similarity
\* of at least 0.1, and no candidate left out has a strictly higher relevance than
\* a returned hit.
C24_TopKOfCandidates ==
    IsRetrieveReturn =>
        /\ \A j \in 1..(Len(ret.value) - 1) :
              ~RelevanceGreater(ret.value[j + 1], ret.value[j])
        /\ Len(ret.value) = Min(call.k, Cardinality(Candidates))
        /\ \E kept \in SUBSET Candidates :
              /\ Cardinality(kept) = Len(ret.value)
              /\ \A j \in 1..Len(ret.value) :
                    Cardinality({m \in 1..Len(ret.value) : ret.value[m] = ret.value[j]})
                        = Cardinality({i \in kept : CandidateHit(i) = ret.value[j]})
              /\ \A i \in Candidates \ kept : \A j \in kept :
                    ~RelevanceGreater(CandidateHit(i), CandidateHit(j))

\* retrieve returned k hits, the first of them is not the nearest neighbour of the
\* query, candidates are left out, and a chunk beyond the k*3 nearest neighbours has
\* a raw similarity of 0.1 or more
C24_Witness ==
    /\ IsRetrieveReturn
    /\ Len(ret.value) = call.k
    /\ Cardinality(Candidates) > call.k
    /\ \E i \in Candidates : NearerChunks(i) > 0 /\ ret.value[1] = CandidateHit(i)
    /\ \E i \in 1..Len(retriever.index) :
          NearerChunks(i) >= call.k * 3 /\ QuerySimilarity(i) >= NoiseFloor

\* hit h describes the metadata record at a position 0 <= p < len(metas) that a search
\* of the index for n neighbours of query returns, with the similarity of that record
DescribesNeighbour(h, query, n) ==
    \E p \in 0..(Len(retriever.metas) - 1) :
        LET similarity(i) == InnerProduct(Encode(preprocess_query(query)),
                                          retriever.index[i])
            nearer == {j \in 1..Len(retriever.index) :
                          \/ similarity(j) > similarity(p + 1)
                          \/ similarity(j) = similarity(p + 1) /\ j < p + 1}
        IN  /\ p < Len(retriever.index)
            /\ Cardinality(nearer) < n
            /\ h.score = similarity(p + 1)
            /\ h.url = retriever.metas[p + 1].url
            /\ h.text \in {retriever.metas[p + 1].text,
                          Truncate(retriever.metas[p + 1].text, SnippetLimit)}

\* C25: every hit retrieve and batch_retrieve return describes the metadata record
\* at a position p, 0 <= p < number of metadata records, that the vector search
\* returned as a neighbour; a position outside that range, the negative position of
\* a missing neighbour included, is discarded without raising and yields no hit.
C25_OnlyValidPositions ==
    /\ (retriever.kind = "RetrieverQA" /\ call.op \in {"retrieve", "batch_retrieve"})
          => ret.status # "raised"
    /\ IsRetrieveReturn =>
          \A j \in 1..Len(ret.value) :
              DescribesNeighbour(ret.value[j], call.query, call.k * 3)
    /\ (call.op = "batch_retrieve" /\ ret.status = "returned") =>
          \A i \in 1..Len(call.queries) :
              /\ Len(ret.value[i]) <= Len(retriever.metas)
              /\ \A j \in 1..Len(ret.value[i]) :
                    DescribesNeighbour(ret.value[i][j], call.queries[i], call.k)

\* the chunk record a hit describes, as far as a hit of batch_retrieve tells
HitRecord(h) == <<h.title, h.url, Truncate(h.text, SnippetLimit)>>

HitRecords(hits) == [j \in 1..Len(hits) |-> HitRecord(hits[j])]

\* C6: batch_retrieve(queries, k) yields for each query the same chunk records in
\* the same order as retrieve(query, k) for that query on its own.
C6_BatchEqualsSingle ==
    (call.op = "batch_retrieve" /\ ret.status = "returned") =>
        \A i \in 1..Len(call.queries) :
            LET single == retrieve(retriever, call.queries[i], call.k)
            IN  /\ single.status = "returned"
                /\ HitRecords(ret.value[i]) = HitRecords(single.value)

\* C7: when the index file or the metadata file does not exist, initialize_retriever
\* does not raise; it returns a retriever on which every retrieve call returns an
\* empty list and every answer call returns a result with no snippets.
C7_FallbackOnMissingIndex ==
    (~faiss_file.exists \/ ~meta_file.exists) =>
        /\ reader.pc \in {"idle", "done"}
        /\ reader.pc = "done" => retriever.kind = "FallbackRetriever"
        /\ (call.op = "retrieve" /\ ret.status # "pending") => ret = Returned(<<>>)
        /\ (call.op = "answer" /\ ret.status # "pending") =>
              ret.status = "returned" /\ ret.value.snippets = <<>>
        /\ call.op \in {"none", "retrieve", "answer"}

\* with the metadata file missing next to a complete index, a retrieve call and an
\* answer call have returned
C7_Witness ==
    /\ faiss_file.exists /\ ~meta_file.exists
    /\ retriever.kind = "FallbackRetriever"
    /\ call.op = "answer"
    /\ ret.status = "returned"

(***************************************************************************)
(* Claims about RetrieverQA.answer.                                        *)
(***************************************************************************)
IsAnswerReturn ==
    call.op = "answer" /\ ret.status = "returned" /\ retriever.kind = "RetrieverQA"

SnippetOnlyMode == retriever.snippets_only \/ retriever.qa = NoSpanModel

\* the hits retrieve returns for the question of the call
RetrievedHits == retrieve(retriever, call.question, call.k).value

\* the positions of the hits whose span prediction is accepted
AcceptedHits ==
    {j \in 1..Len(RetrievedHits) :
        AnswerStep(retriever, call.question, RetrievedHits[j]).kind = "accepted"}

\* the positions of the hits on which the span model raises
FailingHits ==
    {j \in 1..Len(RetrievedHits) :
        AnswerStep(retriever, call.question, RetrievedHits[j]).kind = "raised"}

\* C16: whenever the retriever is in snippet-only mode (snippets_only is true or no
\* span model is loaded), answer(question, k) returns the retrieved hits with
\* answer = None and confidence = 0.0, and never invokes the span model.
C16_SnippetOnlyAnswer ==
    (IsAnswerReturn /\ SnippetOnlyMode) =>
        /\ ret.value.answer = None
        /\ ret.value.snippets = RetrievedHits
        /\ ret.value.confidence.num = 0
        /\ DOMAIN ret.value = {"answer", "snippets", "confidence"}
        /\ ret.qa_calls = 0

\* a retriever constructed with snippets_only = True has answered with two hits
C16_Witness ==
    /\ IsAnswerReturn
    /\ reader.snippets_only
    /\ retriever.snippets_only
    /\ Len(ret.value.snippets) >= 2
    /\ ret.value.answer = None

RECURSIVE GCD(_, _)
GCD(a, b) == IF b = 0 THEN a ELSE GCD(b, a % b)

\* a rational in lowest terms
Reduced(x) ==
    LET g == GCD(x.num, x.den)
    IN  IF g = 0 THEN x ELSE Rational(x.num \div g, x.den \div g)

\* C17: in span mode, whenever no span prediction is accepted but retrieve returned
\* at least one hit, answer returns the top hit's text as the answer (its first 150
\* characters followed by an ellipsis if it is longer than 150, otherwise
\* unchanged) with confidence = top hit relevance score * 0.7 and the
\* snippet-derived flag set.
C17_SnippetFallback ==
    (IsAnswerReturn /\ ~SnippetOnlyMode /\ AcceptedHits = {} /\ RetrievedHits # <<>>) =>
        LET top == RetrievedHits[1]
        IN  /\ ret.value.answer =
                  IF Len(top.text) > AnswerLimit
                  THEN SubSeq(top.text, 1, AnswerLimit) \o <<".", ".", ".">>
                  ELSE top.text
            /\ Reduced(ret.value.confidence)
                  = Reduced(Rational(7 * top.relevance_score.num,
                                     10 * top.relevance_score.den))
            /\ "is_snippet" \in DOMAIN ret.value
            /\ ret.value.is_snippet

\* the span model has rejected every hit and the top hit is longer than 150
\* characters: the answer is its first 150 characters and an ellipsis
C17_Witness ==
    /\ IsAnswerReturn
    /\ ~SnippetOnlyMode
    /\ AcceptedHits = {}
    /\ Len(RetrievedHits) >= 2
    /\ Len(RetrievedHits[1].text) > AnswerLimit
    /\ Len(ret.value.answer) = AnswerLimit + 3
    /\ ret.qa_calls = Len(RetrievedHits)

\* C18: whenever retrieve returns no hits, answer returns confidence 0.0: in span
\* mode it returns the fixed no-answer message with score 0.0 and the no-answer flag
\* set, and it never returns a span answer or a snippet-derived answer.
C18_NoHitsNoAnswer ==
    (IsAnswerReturn /\ RetrievedHits = <<>>) =>
        /\ ret.value.confidence.num = 0
        /\ ret.value.snippets = <<>>
        /\ "is_snippet" \notin DOMAIN ret.value
        /\ "source" \notin DOMAIN ret.value
        /\ ~SnippetOnlyMode =>
              /\ ret.value.answer = NoAnswerMessage
              /\ ret.value.score.num = 0
              /\ "no_answer" \in DOMAIN ret.value
              /\ ret.value.no_answer

\* in span mode, answer has returned for a question no chunk scores 0.1 for
C18_Witness ==
    /\ IsAnswerReturn
    /\ ~SnippetOnlyMode
    /\ RetrievedHits = <<>>
    /\ retriever.index # <<>>
    /\ ret.value.answer = NoAnswerMessage

\* C19: if loading the span model fails while RetrieverQA is constructed with
\* snippets_only=False, construction still succeeds and the retriever is in
\* snippet-only mode from then on: after any sequence of retrieve, answer and
\* batch_retrieve calls snippets_only is still true, and every answer call returns
\* answer = None with confidence 0.0.
C19_LoadFailureDegrades ==
    (reader.pc = "done" /\ reader.qa_error) =>
        /\ ~reader.snippets_only
        /\ retriever.kind = "RetrieverQA"
        /\ retriever.snippets_only
        /\ ret.status # "raised"
        /\ (call.op = "answer" /\ ret.status = "returned") =>
              /\ ret.value.answer = None
              /\ ret.value.confidence.num = 0

\* the span model failed to load, and an answer call has returned hits
C19_Witness ==
    /\ reader.pc = "done"
    /\ reader.qa_error
    /\ IsAnswerReturn
    /\ ret.value.snippets # <<>>
    /\ ret.value.answer = None

\* the position of the accepted hit answer takes its best answer from: the highest
\* span score, the earliest hit among equal scores
BestAcceptedHit ==
    CHOOSE j \in AcceptedHits :
        \A i \in AcceptedHits :
            LET sj == AnswerStep(retriever, call.question, RetrievedHits[j]).data[1].score
                si == AnswerStep(retriever, call.question, RetrievedHits[i]).data[1].score
            IN  sj > si \/ (sj = si /\ j <= i)

\* C20: in answer, a span-model failure on one hit does not abort the call: every
\* later hit is still passed to the span model, predictions accepted before and
\* after the failing hit still compete for the best answer, and answer returns a
\* result instead of raising.
C20_SpanFailureSkipped ==
    (/\ call.op = "answer"
     /\ retriever.kind = "RetrieverQA"
     /\ ~SnippetOnlyMode
     /\ FailingHits # {}) =>
        /\ ret.status = "returned"
        /\ ret.qa_calls =
              Cardinality({j \in 1..Len(RetrievedHits) : Strip(RetrievedHits[j].text) # <<>>})
        /\ AcceptedHits # {} =>
              /\ "source" \in DOMAIN ret.value
              /\ ret.value.source = RetrievedHits[BestAcceptedHit]
              /\ ret.value.score.num =
                    AnswerStep(retriever, call.question,
                               RetrievedHits[BestAcceptedHit]).data[1].score
              /\ Len(ret.value.alternative_answers) = Min(3, Cardinality(AcceptedHits))

\* the span model has raised on the second of three hits; the first and the third
\* were accepted and the answer comes from the third
C20_Witness ==
    /\ IsAnswerReturn
    /\ ~SnippetOnlyMode
    /\ Len(RetrievedHits) = 3
    /\ FailingHits = {2}
    /\ AcceptedHits = {1, 3}
    /\ ret.value.source = RetrievedHits[3]
    /\ ret.qa_calls = 3

\* the span prediction for hit j of the call: what self.qa returns for its context
Prediction(j) ==
    CallSpanModel(retriever.qa, call.question,
                  extract_best_passage(call.question, RetrievedHits[j].text,
                                       PassageWindow).value)

\* the positions of the hits the span model returns a prediction for
PredictedHits ==
    {j \in 1..Len(RetrievedHits) :
        Strip(RetrievedHits[j].text) # <<>> /\ Prediction(j).status = "returned"}

\* C21: in answer, a span prediction is discarded exactly when its model score is
\* below the minimum confidence threshold 0.01; every prediction with score at or
\* above 0.01 is accepted (counted, and eligible to be the best answer): answer
\* returns a span answer exactly when some prediction scores 0.01 or more, and its
\* confidence counts every such prediction.
C21_ThresholdInclusive ==
    (IsAnswerReturn /\ ~SnippetOnlyMode) =>
        LET kept == {j \in PredictedHits : Prediction(j).value.score >= MinSpanScore}
        IN  /\ kept # {} <=> "source" \in DOMAIN ret.value
            /\ kept # {} =>
                  /\ \E j \in kept : ret.value.score.num = Prediction(j).value.score
                  /\ ret.value.confidence.num =
                        calculate_confidence(ret.value.score.num, Cardinality(kept))

\* C22: in span mode, whenever at least one prediction is accepted, answer returns
\* the accepted prediction with the highest model score over all hits (the earliest
\* hit wins a tie), and its confidence equals min(1.0, best_model_score + min(0.2,
\* 0.05 * number of accepted predictions)).
C22_BestAcceptedAnswer ==
    (IsAnswerReturn /\ ~SnippetOnlyMode /\ AcceptedHits # {}) =>
        LET best == CHOOSE j \in AcceptedHits :
                        \A i \in AcceptedHits :
                            \/ Prediction(j).value.score > Prediction(i).value.score
                            \/ /\ Prediction(j).value.score = Prediction(i).value.score
                               /\ j <= i
            score == Prediction(best).value.score
            boost == Min(200, 50 * Cardinality(AcceptedHits))
        IN  /\ ret.value.answer = Prediction(best).value.answer
            /\ ret.value.source = RetrievedHits[best]
            /\ ret.value.score = Rational(score, 1000)
            /\ ret.value.confidence = Rational(Min(1000, score + boost), 1000)

\* three predictions with the same score were accepted and the answer is the one of
\* the first hit
C22_Witness ==
    /\ IsAnswerReturn
    /\ ~SnippetOnlyMode
    /\ Cardinality(AcceptedHits) = 3
    /\ \A j \in AcceptedHits : Prediction(j).value.score = Prediction(1).value.score
    /\ ret.value.source = RetrievedHits[1]
    /\ RetrievedHits[1] # RetrievedHits[2]

(***************************************************************************)
(* Claims about the query path as a whole.                                 *)
(***************************************************************************)
\* C28: the query path keeps no state between queries: every step taken on a loaded
\* retriever (a retrieve, answer, get_similar_documents or batch_retrieve call) leaves
\* the metadata records, the vector index, the snippets_only flag and the span model
\* of the retriever unchanged, and the persisted files as well, and its result is
\* the one the operation gives on the retriever as it was loaded, whatever call came
\* before it.
C28_QueryPathStateless ==
    [][retriever.kind = "RetrieverQA" =>
          /\ retriever' = retriever
          /\ faiss_file' = faiss_file /\ meta_file' = meta_file
          /\ call'.op \in {"retrieve", "get_similar_documents"} =>
                ret' = retrieve(retriever, call'.query, call'.k)
          /\ call'.op = "batch_retrieve" =>
                ret' = batch_retrieve(retriever, call'.queries, call'.k)
          /\ call'.op = "answer" =>
                ret' = answer(retriever, call'.question, call'.k)]_vars

\* an answer call in span mode on which the span model raised has returned, and the
\* retriever is still in span mode with the same span model
C28_Witness ==
    /\ IsAnswerReturn
    /\ ~retriever.snippets_only
    /\ retriever.qa # NoSpanModel
    /\ FailingHits # {}
    /\ ret = answer(retriever, call.question, call.k)

====
